---- MODULE Spec2Model ----
(***************************************************************************)
(* A model of the decision engine of OverFiltrr (src/overfiltrr.py): the   *)
(* rating normaliser, the condition evaluator, the category scorer, the    *)
(* quality-profile rule selector, the anime gate, the validation of the    *)
(* category maps and the webhook server (handle_request, process_request). *)
(*                                                                         *)
(* Python values are modelled as records [t, s, n]: a string (t = "str",   *)
(* s its text), an integer (t = "num", n its value) or None (t = "none").  *)
(* Python strings are TLA+ strings, taken apart with Len and SubSeq.       *)
(* A Python call either returns a boolean or raises; the three outcomes    *)
(* are written "T", "F" and "ERR".                                         *)
(***************************************************************************)
EXTENDS Integers, Sequences, FiniteSets, TLC

(***************************************************************************)
(* Python values                                                           *)
(***************************************************************************)
Str(s) == [t |-> "str", s |-> s, n |-> 0]
Num(n) == [t |-> "num", s |-> "", n |-> n]
NoneV == [t |-> "none", s |-> "", n |-> 0]

\* bool(x) of a scalar: None, "" and 0 are falsy
Truthy(v) == CASE v.t = "str" -> v.s /= ""
               [] v.t = "num" -> v.n /= 0
               [] OTHER -> FALSE

T == "T"
F == "F"
ERR == "ERR"
B2R(b) == IF b THEN T ELSE F

(***************************************************************************)
(* Python string methods, over ASCII                                       *)
(***************************************************************************)
UpperChars == "ABCDEFGHIJKLMNOPQRSTUVWXYZ"
LowerChars == "abcdefghijklmnopqrstuvwxyz"
DigitChars == "0123456789"
\* the characters of the model in code-point order, for str < str
CharOrder == " (+-0123456789ABCDEFGHIJKLMNOPQRSTUVWXYZabcdefghijklmnopqrstuvwxyz"

CharAt(s, i) == SubSeq(s, i, i)
IndexIn(c, chars) ==
    IF \E i \in 1..Len(chars) : CharAt(chars, i) = c
    THEN CHOOSE i \in 1..Len(chars) : CharAt(chars, i) = c
    ELSE 0

LowerChar(c) == IF IndexIn(c, UpperChars) > 0
                THEN CharAt(LowerChars, IndexIn(c, UpperChars)) ELSE c
UpperChar(c) == IF IndexIn(c, LowerChars) > 0
                THEN CharAt(UpperChars, IndexIn(c, LowerChars)) ELSE c

RECURSIVE StrLower(_)
StrLower(s) == IF s = "" THEN "" ELSE LowerChar(CharAt(s, 1)) \o StrLower(Tail(s))

RECURSIVE StrUpper(_)
StrUpper(s) == IF s = "" THEN "" ELSE UpperChar(CharAt(s, 1)) \o StrUpper(Tail(s))

\* s.replace(c, '') for a one-character c
RECURSIVE StrRemove(_, _)
StrRemove(s, c) ==
    IF s = "" THEN ""
    ELSE (IF CharAt(s, 1) = c THEN "" ELSE CharAt(s, 1)) \o StrRemove(Tail(s), c)

RECURSIVE StrLStrip(_)
StrLStrip(s) == IF s /= "" /\ CharAt(s, 1) = " " THEN StrLStrip(Tail(s)) ELSE s

RECURSIVE StrRStrip(_)
StrRStrip(s) ==
    IF s /= "" /\ CharAt(s, Len(s)) = " " THEN StrRStrip(SubSeq(s, 1, Len(s) - 1)) ELSE s

StrStrip(s) == StrRStrip(StrLStrip(s))

StartsWith(l, r) == Len(r) <= Len(l) /\ SubSeq(l, 1, Len(r)) = r
EndsWith(l, r) == Len(r) <= Len(l) /\ SubSeq(l, Len(l) - Len(r) + 1, Len(l)) = r
\* r in l
Contains(l, r) == \E i \in 1..(Len(l) - Len(r) + 1) : SubSeq(l, i, i + Len(r) - 1) = r

\* l < r for two strings
RECURSIVE StrLess(_, _)
StrLess(l, r) ==
    IF r = "" THEN FALSE
    ELSE IF l = "" THEN TRUE
    ELSE IF CharAt(l, 1) = CharAt(r, 1) THEN StrLess(Tail(l), Tail(r))
    ELSE IndexIn(CharAt(l, 1), CharOrder) < IndexIn(CharAt(r, 1), CharOrder)

AllDigits(s) == s /= "" /\ \A i \in 1..Len(s) : IndexIn(CharAt(s, i), DigitChars) > 0

RECURSIVE DigitsToInt(_)
DigitsToInt(s) ==
    IF s = "" THEN 0
    ELSE 10 * DigitsToInt(SubSeq(s, 1, Len(s) - 1)) + (IndexIn(CharAt(s, Len(s)), DigitChars) - 1)

RECURSIVE NatToStr(_)
NatToStr(n) ==
    IF n < 10 THEN CharAt(DigitChars, n + 1)
    ELSE NatToStr(n \div 10) \o CharAt(DigitChars, (n % 10) + 1)

\* str(x)
PyStr(v) == CASE v.t = "str" -> v.s
              [] v.t = "num" -> IF v.n < 0 THEN "-" \o NatToStr(0 - v.n) ELSE NatToStr(v.n)
              [] OTHER -> "None"

(***************************************************************************)
(* Ratings normalisation                                                   *)
(***************************************************************************)
RATING_ORDER == << "G", "TV-Y", "TV-G",
                   "PG", "TV-Y7", "TV-PG",
                   "PG-13", "TV-14",
                   "M", "MA15+",
                   "R", "TV-MA",
                   "NC-17", "18" >>

InRatingIndex(r) == \E i \in 1..Len(RATING_ORDER) : RATING_ORDER[i] = r

\* RATING_INDEX[r], positions counted from 0
RATING_INDEX(r) == (CHOOSE i \in 1..Len(RATING_ORDER) : RATING_ORDER[i] = r) - 1

RATING_NORMALISE ==
    << <<"G", "G">>, <<"PG", "PG">>, <<"PG13", "PG-13">>, <<"PG-13", "PG-13">>,
       <<"R", "R">>, <<"R18", "R">>, <<"R18+", "R">>, <<"NC17", "NC-17">>,
       <<"NC-17", "NC-17">>, <<"18", "18">>, <<"X18", "NC-17">>, <<"X18+", "NC-17">>,
       <<"M", "M">>, <<"MA15", "MA15+">>, <<"MA15+", "MA15+">>, <<"TVY", "TV-Y">>,
       <<"TV-Y", "TV-Y">>, <<"TVG", "TV-G">>, <<"TV-G", "TV-G">>, <<"TVY7", "TV-Y7">>,
       <<"TV-Y7", "TV-Y7">>, <<"TVPG", "TV-PG">>, <<"TV-PG", "TV-PG">>, <<"TV14", "TV-14">>,
       <<"TV-14", "TV-14">>, <<"TVMA", "TV-MA">>, <<"TV-MA", "TV-MA">> >>

InRatingNormalise(s) == \E i \in 1..Len(RATING_NORMALISE) : RATING_NORMALISE[i][1] = s
RatingNormaliseGet(s) ==
    IF InRatingNormalise(s)
    THEN Str(RATING_NORMALISE[CHOOSE i \in 1..Len(RATING_NORMALISE) : RATING_NORMALISE[i][1] = s][2])
    ELSE NoneV

\* as if the hyphen-free lookup were missing
normalise_rating_NoHyphenFallback(raw) ==
    IF ~Truthy(raw) THEN NoneV
    ELSE RatingNormaliseGet(StrRemove(StrUpper(StrStrip(raw.s)), " "))

\* normalise_rating(raw): raw is a string value or None
normalise_rating(raw) ==
    IF ~Truthy(raw) THEN NoneV
    ELSE LET s == StrRemove(StrUpper(StrStrip(raw.s)), " ")
         IN IF InRatingNormalise(s) THEN RatingNormaliseGet(s)
            ELSE RatingNormaliseGet(StrRemove(s, "-"))

\* rating_strictness(r) for a string r
rating_strictness(r) == IF InRatingIndex(r) THEN RATING_INDEX(r) ELSE -1

\* as if the first valid entry were returned
pick_strictest_First(mapped) ==
    LET mapped_valid == SelectSeq(mapped, LAMBDA m : InRatingIndex(m))
    IN IF mapped_valid = << >> THEN NoneV ELSE Str(mapped_valid[1])

\* pick_strictest(mapped) for a list of strings; max() keeps the first of
\* the entries with the greatest key
pick_strictest(mapped) ==
    LET mapped_valid == SelectSeq(mapped, LAMBDA m : InRatingIndex(m))
        n == Len(mapped_valid)
    IN IF mapped_valid = << >> THEN NoneV
       ELSE Str(mapped_valid[CHOOSE i \in 1..n :
                    /\ \A j \in 1..n : RATING_INDEX(mapped_valid[j]) <= RATING_INDEX(mapped_valid[i])
                    /\ \A j \in 1..(i - 1) :
                           RATING_INDEX(mapped_valid[j]) < RATING_INDEX(mapped_valid[i])])

(***************************************************************************)
(* Anime gate (deterministic)                                              *)
(*                                                                         *)
(* genres, keywords, production_companies and networks are lists of        *)
(* strings, original_language is a string value or None.                   *)
(***************************************************************************)
AnimeKeywords == {"anime", "donghua", "manhwa", "webtoon"}
AnimeLangs == {"ja", "zh", "ko"}
AnimeStudios ==
    {"toei animation", "mappa", "aniplex", "tencent penguin pictures",
     "bilibili", "haoliners animation league", "studio ghibli",
     "production i.g", "kyoto animation", "bones", "sunrise", "a-1 pictures", "gainax"}
AnimeNets == {"tv tokyo", "fuji tv", "tbs", "nhk", "tv asahi", "nippon tv", "tooniverse"}

\* as if the language were not looked at
is_anime_hard_AnyLanguage(genres, keywords, original_language, production_companies, networks) ==
    LET kw_l == {StrLower(StrStrip(keywords[i])) : i \in {j \in 1..Len(keywords) : keywords[j] /= ""}}
    IN B2R(\/ AnimeKeywords \cap kw_l /= {}
           \/ \E i \in 1..Len(genres) : StrLower(genres[i]) = "animation"
           \/ \E i \in 1..Len(production_companies) : StrLower(production_companies[i]) \in AnimeStudios
           \/ \E i \in 1..Len(networks) : StrLower(networks[i]) \in AnimeNets)

is_anime_hard(genres, keywords, original_language, production_companies, networks) ==
    LET kw_l == {StrLower(StrStrip(keywords[i])) : i \in {j \in 1..Len(keywords) : keywords[j] /= ""}}
        has_animation == \E i \in 1..Len(genres) : StrLower(genres[i]) = "animation"
        lang == IF Truthy(original_language) THEN StrLower(original_language.s) ELSE ""
    IN B2R(\/ AnimeKeywords \cap kw_l /= {}
           \/ has_animation /\ lang \in AnimeLangs
           \/ \E i \in 1..Len(production_companies) : StrLower(production_companies[i]) \in AnimeStudios
           \/ \E i \in 1..Len(networks) : StrLower(networks[i]) \in AnimeNets)

(***************************************************************************)
(* Condition / operator engine                                             *)
(***************************************************************************)
\* An operand of a leaf: a scalar, a list of scalars, or a {min, max} mapping
\* (lo / hi are None when the key is missing).
Scalar(v) == [kind |-> "scalar", v |-> v, l |-> << >>, lo |-> NoneV, hi |-> NoneV]
ListOf(l) == [kind |-> "list", v |-> NoneV, l |-> l, lo |-> NoneV, hi |-> NoneV]
MinMax(lo, hi) == [kind |-> "dict", v |-> NoneV, l |-> << >>, lo |-> lo, hi |-> hi]

_to_list(target) ==
    CASE target.kind = "list" -> target.l
      [] target.kind = "scalar" /\ target.v = NoneV -> << >>
      [] OTHER -> << target.v >>

\* float(x) succeeds; the strings of the model hold no sign, point or exponent
_is_number(x) == x.t = "num" \/ (x.t = "str" /\ AllDigits(x.s))
_coerce_num(x) == IF x.t = "num" THEN x.n ELSE DigitsToInt(x.s)
_norm_str(x) == StrLower(PyStr(x))

RECURSIVE LCSLen(_, _)
LCSLen(a, b) ==
    IF a = "" \/ b = "" THEN 0
    ELSE IF CharAt(a, 1) = CharAt(b, 1) THEN 1 + LCSLen(Tail(a), Tail(b))
    ELSE LET x == LCSLen(Tail(a), b)
             y == LCSLen(a, Tail(b))
         IN IF x >= y THEN x ELSE y

\* fuzz.token_set_ratio(a, b) >= threshold for strings of at most one token:
\* 0 when either is empty, 100 when equal, else the indel similarity
\* 200 * LCS / (len(a) + len(b)).
TokenSetRatioAtLeast(a, b, threshold) ==
    IF a = "" \/ b = "" THEN 0 >= threshold
    ELSE IF a = b THEN 100 >= threshold
    ELSE 200 * LCSLen(a, b) >= threshold * (Len(a) + Len(b))

\* re.search(pattern, text, flags): a pattern with an unclosed "(" does not
\* compile; a pattern without metacharacters is searched literally.
ReSearch(pattern, text, ignorecase) ==
    IF pattern.t /= "str" THEN ERR
    ELSE IF Contains(pattern.s, "(") THEN ERR
    ELSE IF ignorecase THEN B2R(Contains(StrLower(text), StrLower(pattern.s)))
    ELSE B2R(Contains(text, pattern.s))

RatingOps == {"rating_lt", "rating_lte", "rating_gt", "rating_gte", "rating_eq", "rating_ne"}
NumericOps == {"lt", "lte", "gt", "gte", "eq", "ne"}

IntCompare(op, l, r) ==
    CASE op \in {"lt", "rating_lt", "<"} -> l < r
      [] op \in {"lte", "rating_lte", "<="} -> l <= r
      [] op \in {"gt", "rating_gt", ">"} -> l > r
      [] op \in {"gte", "rating_gte", ">="} -> l >= r
      [] op \in {"eq", "rating_eq"} -> l = r
      [] op \in {"ne", "rating_ne"} -> l /= r

StrCompare(op, l, r) ==
    CASE op = "<" -> StrLess(l, r)
      [] op = "<=" -> StrLess(l, r) \/ l = r
      [] op = ">" -> StrLess(r, l)
      [] op = ">=" -> StrLess(r, l) \/ l = r

\* the final "Fall back to Python ops" table, applied to the raw operands
PythonOp(op, left, right) ==
    IF op \in {"<", "<=", ">", ">="}
    THEN CASE left.t = "num" /\ right.t = "num" -> B2R(IntCompare(op, left.n, right.n))
           [] left.t = "str" /\ right.t = "str" -> B2R(StrCompare(op, left.s, right.s))
           [] OTHER -> ERR
    ELSE IF left.t = "str" /\ right.t = "str"
         THEN B2R(Contains(right.s, left.s) <=> (op = "in"))
         ELSE ERR

_compare_scalar(op, left, right, case_sensitive) ==
    IF op \in RatingOps
    THEN LET lhs == IF left /= NoneV THEN rating_strictness(PyStr(left)) ELSE -1
             rhs == IF right /= NoneV THEN rating_strictness(PyStr(right)) ELSE -1
         IN B2R(IntCompare(op, lhs, rhs))
    ELSE IF _is_number(left) /\ _is_number(right) /\ op \in NumericOps
    THEN B2R(IntCompare(op, _coerce_num(left), _coerce_num(right)))
    ELSE LET l == IF case_sensitive THEN PyStr(left) ELSE _norm_str(left)
             r == IF case_sensitive THEN PyStr(right) ELSE _norm_str(right)
         IN CASE op \in {"eq", "=="} -> B2R(l = r)
              [] op \in {"ne", "!="} -> B2R(l /= r)
              [] op = "contains" -> B2R(Contains(l, r))
              [] op = "icontains" -> B2R(Contains(_norm_str(left), _norm_str(right)))
              [] op = "startswith" -> B2R(StartsWith(l, r))
              [] op = "endswith" -> B2R(EndsWith(l, r))
              [] op \in {"regex", "iregex"} -> ReSearch(right, PyStr(left), op = "iregex")
              [] op = "fuzzy" -> B2R(TokenSetRatioAtLeast(PyStr(left), PyStr(right), 80))
              [] op \in {"<", "<=", ">", ">=", "in", "not in"} -> PythonOp(op, left, right)
              [] OTHER -> F

\* any(...) / all(...) over a generator: stops at the first deciding element,
\* so an element that raises is reached only if nothing before it decided.
RECURSIVE AnyLazy(_)
AnyLazy(rs) ==
    IF rs = << >> THEN F
    ELSE IF Head(rs) = F THEN AnyLazy(Tail(rs)) ELSE Head(rs)

RECURSIVE AllLazy(_)
AllLazy(rs) ==
    IF rs = << >> THEN T
    ELSE IF Head(rs) = T THEN AllLazy(Tail(rs)) ELSE Head(rs)

\* any(...) / all(...) over a list that was built first: building it raises
\* as soon as one element does.
Raises(rs) == \E i \in 1..Len(rs) : rs[i] = ERR
AnyBuilt(rs) == IF Raises(rs) THEN ERR ELSE B2R(\E i \in 1..Len(rs) : rs[i] = T)
AllBuilt(rs) == IF Raises(rs) THEN ERR ELSE B2R(\A i \in 1..Len(rs) : rs[i] = T)
NotR(r) == CASE r = T -> F [] r = F -> T [] OTHER -> ERR

ListCompareOps == {"contains", "icontains", "startswith", "endswith", "regex", "iregex", "fuzzy",
                   "lt", "lte", "gt", "gte", "eq", "ne", "<", "<=", ">", ">=", "==", "!="}

_match_list_field(field_values, op, target, case_sensitive, quantifier) ==
    LET targets == _to_list(target)
        norm(x) == IF case_sensitive \/ x.t = "num" THEN x ELSE Str(_norm_str(x))
        field_norm == [i \in 1..Len(field_values) |-> norm(field_values[i])]
        target_norm == [j \in 1..Len(targets) |-> norm(targets[j])]
        cmp_one(fv, tv) ==
            IF op \in {"in", "one_of"} THEN _compare_scalar("eq", fv, tv, case_sensitive)
            ELSE IF op \in ListCompareOps THEN _compare_scalar(op, fv, tv, case_sensitive)
            ELSE F
        results == [i \in 1..Len(field_norm) |->
                       AnyLazy([j \in 1..Len(target_norm) |-> cmp_one(field_norm[i], target_norm[j])])]
    IN IF Raises(results) THEN ERR
       ELSE IF quantifier = "all"
            THEN (IF field_norm /= << >> THEN AllBuilt(results) ELSE F)
       ELSE IF quantifier = "none" THEN NotR(AnyBuilt(results))
       ELSE AnyBuilt(results)

\* list(rng) for an operand that is not a mapping; a number is not iterable
RangeAsList(rng) ==
    CASE rng.kind = "list" -> rng.l
      [] rng.kind = "scalar" /\ rng.v.t = "str" ->
             [i \in 1..Len(rng.v.s) |-> Str(CharAt(rng.v.s, i))]
      [] OTHER -> << >>

_between_check(value, rng) ==
    IF value = NoneV THEN F
    ELSE IF rng.kind = "scalar" /\ rng.v.t /= "str" THEN ERR
    ELSE LET lst == RangeAsList(rng)
             low == IF rng.kind = "dict" THEN rng.lo
                    ELSE IF Len(lst) > 0 THEN lst[1] ELSE NoneV
             high == IF rng.kind = "dict" THEN rng.hi
                     ELSE IF Len(lst) > 1 THEN lst[2] ELSE NoneV
         IN IF low = NoneV \/ high = NoneV THEN F
            ELSE IF ~_is_number(value) \/ ~_is_number(low) \/ ~_is_number(high) THEN F
            ELSE B2R(_coerce_num(low) <= _coerce_num(value) /\ _coerce_num(value) <= _coerce_num(high))

\* A leaf spec: either a mapping (isdict) of operator items, with the optional
\* keys quantifier (None when missing) and case_sensitive, or a plain scalar.
Leaf(items, quantifier, cs) ==
    [isdict |-> TRUE, items |-> items, quantifier |-> quantifier, case_sensitive |-> cs, plain |-> NoneV]
Plain(v) ==
    [isdict |-> FALSE, items |-> << >>, quantifier |-> NoneV, case_sensitive |-> FALSE, plain |-> v]
Item(op, target) == [op |-> op, target |-> target]

alias(op_raw) ==
    CASE op_raw = "==" -> "eq" [] op_raw = "!=" -> "ne"
      [] op_raw = "<" -> "lt" [] op_raw = "<=" -> "lte"
      [] op_raw = ">" -> "gt" [] op_raw = ">=" -> "gte"
      [] op_raw = "one_of" -> "in" [] op_raw = "not_in" -> "not in"
      [] OTHER -> op_raw

\* `not in` over a list handed the quantifier of the leaf instead of "any"
_eval_leaf_condition_NotInByQuantifier(field_value, spec, case_sensitive) ==
    LET quantifier == IF spec.quantifier = NoneV THEN "any" ELSE StrLower(spec.quantifier.s)
        items == spec.items
        list_ok(i) ==
            LET op == alias(items[i].op)
                target == items[i].target
            IN IF op = "not in"
               THEN NotR(_match_list_field(field_value.l, "in", target, case_sensitive, quantifier))
               ELSE IF op = "between"
               THEN AnyLazy([k \in 1..Len(field_value.l) |-> _between_check(field_value.l[k], target)])
               ELSE _match_list_field(field_value.l, op, target, case_sensitive, quantifier)
        scalar_ok(i) ==
            LET op == alias(items[i].op)
                target == items[i].target
                ts == _to_list(target)
            IN IF op = "between" THEN _between_check(field_value.v, target)
               ELSE IF op \in {"in", "one_of"}
               THEN AnyLazy([k \in 1..Len(ts) |->
                                _compare_scalar("eq", field_value.v, ts[k], case_sensitive)])
               ELSE IF op = "not in"
               THEN AllLazy([k \in 1..Len(ts) |->
                                NotR(_compare_scalar("eq", field_value.v, ts[k], case_sensitive))])
               ELSE _compare_scalar(op, field_value.v, target.v, case_sensitive)
    IN IF items = << >> THEN F
       ELSE IF field_value.kind = "list"
       THEN AllLazy([i \in 1..Len(items) |-> list_ok(i)])
       ELSE AllLazy([i \in 1..Len(items) |-> scalar_ok(i)])

\* field_value is a context value that is not None: Scalar(v) or ListOf(l)
_eval_leaf_condition(field_value, spec, case_sensitive) ==
    LET quantifier == IF spec.quantifier = NoneV THEN "any" ELSE StrLower(spec.quantifier.s)
        items == spec.items
        list_ok(i) ==
            LET op == alias(items[i].op)
                target == items[i].target
            IN IF op = "not in"
               THEN NotR(_match_list_field(field_value.l, "in", target, case_sensitive, "any"))
               ELSE IF op = "between"
               THEN AnyLazy([k \in 1..Len(field_value.l) |-> _between_check(field_value.l[k], target)])
               ELSE _match_list_field(field_value.l, op, target, case_sensitive, quantifier)
        scalar_ok(i) ==
            LET op == alias(items[i].op)
                target == items[i].target
                ts == _to_list(target)
            IN IF op = "between" THEN _between_check(field_value.v, target)
               ELSE IF op \in {"in", "one_of"}
               THEN AnyLazy([k \in 1..Len(ts) |->
                                _compare_scalar("eq", field_value.v, ts[k], case_sensitive)])
               ELSE IF op = "not in"
               THEN AllLazy([k \in 1..Len(ts) |->
                                NotR(_compare_scalar("eq", field_value.v, ts[k], case_sensitive))])
               ELSE _compare_scalar(op, field_value.v, target.v, case_sensitive)
    IN IF items = << >> THEN F
       ELSE IF field_value.kind = "list"
       THEN AllLazy([i \in 1..Len(items) |-> list_ok(i)])
       ELSE AllLazy([i \in 1..Len(items) |-> scalar_ok(i)])

(***************************************************************************)
(* evaluate_condition                                                      *)
(*                                                                         *)
(* A context maps field names to Scalar(v) or ListOf(l); context.get(k) is *)
(* None for a missing key and for a key holding None.  A condition is None *)
(* (isnone) or a mapping with the optional keys ANY, ALL, NONE (blocks)    *)
(* and the remaining keys `fields`, a sequence of <<key, spec>> in dict    *)
(* order.  A block is absent (or None), a list of items, or some other     *)
(* value of which only the truth value matters.                            *)
(***************************************************************************)
AbsentBlock == [kind |-> "absent", items |-> << >>, truthy |-> FALSE]
ListBlock(items) == [kind |-> "list", items |-> items, truthy |-> items /= << >>]
OtherBlock(truthy) == [kind |-> "other", items |-> << >>, truthy |-> truthy]
DictItem(fields) == [isdict |-> TRUE, fields |-> fields]
NonDictItem == [isdict |-> FALSE, fields |-> << >>]
Cond(any, all, none, fields) ==
    [isnone |-> FALSE, any |-> any, all |-> all, none |-> none, fields |-> fields]
FieldMap(fields) == Cond(AbsentBlock, AbsentBlock, AbsentBlock, fields)
NoneCond == [isnone |-> TRUE, any |-> AbsentBlock, all |-> AbsentBlock, none |-> AbsentBlock,
             fields |-> << >>]

ContextGet(context, k) == IF k \in DOMAIN context THEN context[k] ELSE Scalar(NoneV)
IsNone(field_value) == field_value.kind = "scalar" /\ field_value.v = NoneV

\* as if the guard were `condition is None`
ConditionIsEmpty_NoneOnly(condition) == condition.isnone

\* `not condition`: None or a mapping without keys
ConditionIsEmpty(condition) ==
    \/ condition.isnone
    \/ /\ condition.any.kind = "absent" /\ condition.all.kind = "absent"
       /\ condition.none.kind = "absent" /\ condition.fields = << >>

\* one key of a condition mapping or of a block item; a spec that is not a
\* mapping is the shorthand for {"eq": spec}
EvalKey(context, k, spec) ==
    LET field_value == ContextGet(context, k)
        leaf == IF spec.isdict THEN spec ELSE Leaf(<< Item("eq", Scalar(spec.plain)) >>, NoneV, FALSE)
    IN IF IsNone(field_value) THEN F
       ELSE _eval_leaf_condition(field_value, leaf, leaf.case_sensitive)

\* the list eval_block returns for a list block
eval_block(context, block) ==
    [i \in 1..Len(block.items) |->
        IF ~block.items[i].isdict THEN F
        ELSE LET item == block.items[i].fields
             IN AllLazy([j \in 1..Len(item) |-> EvalKey(context, item[j][1], item[j][2])])]

\* the keys ANY / ALL / NONE that the field-map path meets as field names
CombinatorKeys(condition) ==
    (IF condition.any.kind /= "absent" THEN << << "ANY", Plain(NoneV) >> >> ELSE << >>)
    \o (IF condition.all.kind /= "absent" THEN << << "ALL", Plain(NoneV) >> >> ELSE << >>)
    \o (IF condition.none.kind /= "absent" THEN << << "NONE", Plain(NoneV) >> >> ELSE << >>)

\* ok_any and ok_all and ok_none, from the lists eval_block returned
CombineBlocks(condition, res) ==
    IF Raises(res.any) \/ Raises(res.all) \/ Raises(res.none) THEN ERR
    \* eval_block returns True for a block that is not a list, and
    \* any(True) / all(True) is a TypeError
    ELSE IF "other" \in {condition.any.kind, condition.all.kind, condition.none.kind} THEN ERR
    ELSE LET ok_any == IF res.any /= << >> THEN AnyBuilt(res.any) ELSE T
             ok_all == IF res.all /= << >> THEN AllBuilt(res.all) ELSE T
             ok_none == IF res.none /= << >> THEN NotR(AnyBuilt(res.none)) ELSE T
         IN B2R(ok_any = T /\ ok_all = T /\ ok_none = T)

\* all(results) under AND, any(results) otherwise, the list being built first
CombineFields(results, logic) ==
    IF Raises(results) THEN ERR
    ELSE IF StrUpper(logic) = "AND" THEN AllBuilt(results)
    ELSE AnyBuilt(results)

evaluate_condition(condition, context, logic) ==
    IF ConditionIsEmpty(condition) THEN T
    ELSE IF condition.any.truthy \/ condition.all.truthy \/ condition.none.truthy
    THEN CombineBlocks(condition,
                       [b \in {"any", "all", "none"} |-> eval_block(context, condition[b])])
    ELSE LET items == condition.fields \o CombinatorKeys(condition)
         IN CombineFields([i \in 1..Len(items) |-> EvalKey(context, items[i][1], items[i][2])],
                          logic)

(***************************************************************************)
(* Quality-profile rule selector                                           *)
(*                                                                         *)
(* A rule is a mapping with the optional keys priority, logic (None when   *)
(* missing), condition (the empty mapping when missing) and profile_id.    *)
(***************************************************************************)
Rule(priority, logic, condition, profile_id) ==
    [priority |-> priority, logic |-> logic, condition |-> condition, profile_id |-> profile_id]

\* a missing priority sorting first instead of as 9999
PriorityKey_MissingFirst(rule) == IF rule.priority = NoneV THEN 0 ELSE rule.priority.n

\* x.get('priority', 9999)
PriorityKey(rule) == IF rule.priority = NoneV THEN 9999 ELSE rule.priority.n

\* sorted(rules, key=...): a stable sort, so a rule comes after exactly the
\* rules with a smaller key and the earlier rules with an equal key
SortedRules(rules) ==
    LET n == Len(rules)
        rank(i) == Cardinality({j \in 1..n :
                       \/ PriorityKey(rules[j]) < PriorityKey(rules[i])
                       \/ PriorityKey(rules[j]) = PriorityKey(rules[i]) /\ j < i}) + 1
    IN [k \in 1..n |-> rules[CHOOSE i \in 1..n : rank(i) = k]]

\* rule.get('logic', 'OR').upper(), replaced by 'OR' unless 'AND' or 'OR'
RuleLogic(rule) ==
    LET logic == IF rule.logic = NoneV THEN "OR" ELSE StrUpper(rule.logic.s)
    IN IF logic \notin {"AND", "OR"} THEN "OR" ELSE logic

\* the loop over sorted_rules from position k on; an exception raised by
\* evaluate_condition is logged and the loop goes on
RECURSIVE FirstMatch(_, _, _)
FirstMatch(sorted_rules, k, context) ==
    IF k > Len(sorted_rules) THEN NoneV
    ELSE IF evaluate_condition(sorted_rules[k].condition, context, RuleLogic(sorted_rules[k])) = T
    THEN sorted_rules[k].profile_id
    ELSE FirstMatch(sorted_rules, k + 1, context)

evaluate_quality_profile_rules(rules, context) ==
    IF rules = << >> THEN NoneV
    ELSE FirstMatch(SortedRules(rules), 1, context)

(***************************************************************************)
(* Scoring (+3/+2/+1) with ratings                                         *)
(*                                                                         *)
(* A category configuration holds weight, the four filter lists (empty     *)
(* when missing), the optional ratings mapping with ceiling and prefer     *)
(* (None when missing) and apply.root_folder.  A category map is the       *)
(* value of the "default" key and the other entries in dict order.         *)
(***************************************************************************)
_any_match(values, needles) ==
    /\ values /= << >>
    /\ needles /= << >>
    /\ \E i \in 1..Len(values), j \in 1..Len(needles) :
           TokenSetRatioAtLeast(StrLower(values[i]), StrLower(needles[j]), 80)

_provider_or_network_hit(providers, networks, filt) ==
    _any_match(providers, filt.providers) \/ _any_match(networks, filt.networks)

\* returns the delta and the reason (None when there is none)
_apply_simple_ratings(cat_cfg, final_rating) ==
    IF ~cat_cfg.has_ratings THEN [delta |-> 0, why |-> NoneV]
    ELSE LET ceiling == IF cat_cfg.ceiling /= NoneV
                        THEN normalise_rating(Str(PyStr(cat_cfg.ceiling))) ELSE NoneV
             prefer == IF cat_cfg.prefer /= NoneV
                       THEN normalise_rating(Str(PyStr(cat_cfg.prefer))) ELSE NoneV
         IN IF ~Truthy(final_rating) THEN [delta |-> 0, why |-> NoneV]
            ELSE IF /\ Truthy(ceiling) /\ InRatingIndex(final_rating.s)
                    /\ rating_strictness(final_rating.s) > rating_strictness(ceiling.s)
            THEN [delta |-> -999, why |-> Str("blocked by ceiling > " \o ceiling.s)]
            ELSE IF /\ Truthy(prefer) /\ InRatingIndex(final_rating.s)
                    /\ rating_strictness(final_rating.s) <= rating_strictness(prefer.s)
            THEN [delta |-> 1, why |-> Str("+1 prefer <= " \o prefer.s)]
            ELSE [delta |-> 0, why |-> NoneV]

\* the ceiling delta added to the score like any other delta
_score_category_NoEarlyReturn(cat_cfg, media_genres, media_keywords, media_providers, media_networks, final_rating) ==
    LET g == _any_match(media_genres, cat_cfg.genres)
        k == _any_match(media_keywords, cat_cfg.keywords)
        p == _provider_or_network_hit(media_providers, media_networks, cat_cfg)
        score == (IF g THEN 3 ELSE 0) + (IF k THEN 2 ELSE 0) + (IF p THEN 1 ELSE 0)
        reasons == (IF g THEN << "+3 genre" >> ELSE << >>)
                   \o (IF k THEN << "+2 keyword" >> ELSE << >>)
                   \o (IF p THEN << "+1 provider/network" >> ELSE << >>)
        r == _apply_simple_ratings(cat_cfg, final_rating)
    IN IF r.delta /= 0
       THEN [score |-> score + r.delta, reasons |-> reasons \o << r.why.s >>]
       ELSE [score |-> score, reasons |-> reasons]

_score_category(cat_cfg, media_genres, media_keywords, media_providers, media_networks, final_rating) ==
    LET g == _any_match(media_genres, cat_cfg.genres)
        k == _any_match(media_keywords, cat_cfg.keywords)
        p == _provider_or_network_hit(media_providers, media_networks, cat_cfg)
        score == (IF g THEN 3 ELSE 0) + (IF k THEN 2 ELSE 0) + (IF p THEN 1 ELSE 0)
        reasons == (IF g THEN << "+3 genre" >> ELSE << >>)
                   \o (IF k THEN << "+2 keyword" >> ELSE << >>)
                   \o (IF p THEN << "+1 provider/network" >> ELSE << >>)
        r == _apply_simple_ratings(cat_cfg, final_rating)
    IN IF r.delta = -999
       THEN [score |-> -999,
             reasons |-> IF Truthy(r.why) THEN << r.why.s >> ELSE << "blocked by ceiling" >>]
       ELSE IF r.delta /= 0
       THEN [score |-> score + r.delta, reasons |-> reasons \o << r.why.s >>]
       ELSE [score |-> score, reasons |-> reasons]

HasCategory(categories, name) ==
    name.t = "str" /\ \E i \in 1..Len(categories.cats) : categories.cats[i].name = name.s
CategoryCfg(categories, name) ==
    categories.cats[CHOOSE i \in 1..Len(categories.cats) : categories.cats[i].name = name].cfg

ScoreOf(categories, i, media) ==
    _score_category(categories.cats[i].cfg, media.genres, media.keywords,
                    media.providers, media.networks, media.final_rating)

\* the state of the loop of categorise_media_scored: best_cat (None at first)
\* and best_score / best_weight, which are float("-inf") while inf holds
NoBest == [cat |-> NoneV, score |-> 0, weight |-> 0, inf |-> TRUE]

\* the loop letting a later entry take a tie on score and weight
ScoreStep_LastTieWins(categories, i, media, best) ==
    LET weight == categories.cats[i].cfg.weight
        score == ScoreOf(categories, i, media).score
    IN IF score <= 0 THEN best
       ELSE IF \/ best.inf \/ score > best.score
               \/ (score = best.score /\ weight >= best.weight)
       THEN [cat |-> Str(categories.cats[i].name), score |-> score, weight |-> weight, inf |-> FALSE]
       ELSE best

\* the loop skipping the entry the default key names
ScoreStep_SkipDefault(categories, i, media, best) ==
    LET weight == categories.cats[i].cfg.weight
        score == ScoreOf(categories, i, media).score
    IN IF Str(categories.cats[i].name) = categories.default \/ score <= 0 THEN best
       ELSE IF \/ best.inf \/ score > best.score
               \/ (score = best.score /\ weight > best.weight)
       THEN [cat |-> Str(categories.cats[i].name), score |-> score, weight |-> weight, inf |-> FALSE]
       ELSE best

\* one iteration of the loop, for the entry at position i
ScoreStep(categories, i, media, best) ==
    LET weight == categories.cats[i].cfg.weight
        score == ScoreOf(categories, i, media).score
    IN IF score <= 0 THEN best
       ELSE IF \/ best.inf \/ score > best.score
               \/ (score = best.score /\ weight > best.weight)
       THEN [cat |-> Str(categories.cats[i].name), score |-> score, weight |-> weight, inf |-> FALSE]
       ELSE best

RECURSIVE ScoreLoop(_, _, _, _)
ScoreLoop(categories, i, media, best) ==
    IF i > Len(categories.cats) THEN best
    ELSE ScoreLoop(categories, i + 1, media, ScoreStep(categories, i, media, best))

\* the result tuple (root_folder, category, scored_table, score)
categorise_media_scored(categories, media) ==
    LET default_key == categories.default
        best == ScoreLoop(categories, 1, media, NoBest)
        scored_table == [i \in 1..Len(categories.cats) |->
                            [name |-> categories.cats[i].name,
                             score |-> ScoreOf(categories, i, media).score,
                             weight |-> categories.cats[i].cfg.weight,
                             reasons |-> ScoreOf(categories, i, media).reasons]]
    IN IF Truthy(best.cat)
       THEN [root_folder |-> Str(CategoryCfg(categories, best.cat.s).root_folder),
             category |-> best.cat, scored_table |-> scored_table, score |-> Num(best.score)]
       ELSE IF HasCategory(categories, default_key)
       THEN [root_folder |-> Str(CategoryCfg(categories, default_key.s).root_folder),
             category |-> default_key, scored_table |-> scored_table, score |-> NoneV]
       ELSE [root_folder |-> NoneV, category |-> NoneV, scored_table |-> scored_table, score |-> NoneV]

(***************************************************************************)
(* Core processing                                                         *)
(*                                                                         *)
(* For a request a category configuration also holds is_anime (FALSE when  *)
(* missing or not True), its quality_profile_rules (empty when missing)    *)
(* and, from its apply block, default_profile_id, radarr_id and sonarr_id  *)
(* (None when missing).  The media details are the tuple get_media_data    *)
(* returns; the request context built from them is the mapping the rule    *)
(* selector reads.                                                         *)
(***************************************************************************)
\* MOVIE_CATEGORIES if media_type == 'movie' else TV_CATEGORIES
CategoriesFor(cfg, media_type) ==
    IF media_type = Str("movie") THEN cfg.MOVIE_CATEGORIES ELSE cfg.TV_CATEGORIES

\* the marked category of the lowest weight
_pick_marked_anime_category_LowestWeight(categories) ==
    LET marked == {i \in 1..Len(categories.cats) : categories.cats[i].cfg.is_anime}
        weight(i) == categories.cats[i].cfg.weight
    IN IF marked = {} THEN NoneV
       ELSE Str(categories.cats[CHOOSE i \in marked : \A j \in marked :
                    \/ weight(j) > weight(i)
                    \/ weight(j) = weight(i) /\ i <= j].name)

\* the sort is stable, also with reverse=True: among the marked categories
\* of the highest weight the first in dict order is returned
_pick_marked_anime_category(categories) ==
    LET marked == {i \in 1..Len(categories.cats) : categories.cats[i].cfg.is_anime}
        weight(i) == categories.cats[i].cfg.weight
    IN IF marked = {} THEN NoneV
       ELSE Str(categories.cats[CHOOSE i \in marked : \A j \in marked :
                    \/ weight(j) < weight(i)
                    \/ weight(j) = weight(i) /\ i <= j].name)

\* the step "anime gate": best_match and target_root_folder after it
AnimeGate(categories_for_type, details) ==
    IF is_anime_hard(details.genres, details.keywords, details.original_language,
                     details.production_companies, details.networks) = T
    THEN LET anime_cat == _pick_marked_anime_category(categories_for_type)
         IN IF Truthy(anime_cat)
            THEN [best_match |-> anime_cat,
                  target_root_folder |-> Str(CategoryCfg(categories_for_type, anime_cat.s).root_folder)]
            ELSE [best_match |-> NoneV, target_root_folder |-> NoneV]
    ELSE [best_match |-> NoneV, target_root_folder |-> NoneV]

\* `not target_root_folder or not best_match`
NoRoute(target_root_folder, best_match) == ~Truthy(target_root_folder) \/ ~Truthy(best_match)

StrList(l) == [i \in 1..Len(l) |-> Str(l[i])]

\* the context of the step "decision"
RequestContextOf(details, media_type, request_username) ==
    [release_year |-> Scalar(details.release_year),
     original_language |-> Scalar(details.original_language),
     providers |-> ListOf(StrList(details.providers)),
     production_companies |-> ListOf(StrList(details.production_companies)),
     networks |-> ListOf(StrList(details.networks)),
     status |-> Scalar(details.status),
     genres |-> ListOf(StrList(details.genres)),
     keywords |-> ListOf(StrList(details.keywords)),
     media_type |-> Scalar(media_type),
     requested_by |-> Scalar(request_username),
     final_rating |-> Scalar(details.final_rating)]

\* evaluate_quality_profile_rules(quality_profile_rules, context) or default_profile_id
ProfileIdFor(selected, default_profile_id) ==
    IF Truthy(selected) THEN selected ELSE default_profile_id

\* as if every value were a valid profile id
ValidProfileId_Any(profile_id) == TRUE

\* isinstance(profile_id, int)
ValidProfileId(profile_id) == profile_id.t = "num"

NoPutData == [mediaType |-> NoneV, rootFolder |-> NoneV, serverId |-> NoneV, profileId |-> NoneV]

\* the checks of the step "decision" on the profile id, the media type and
\* the server id: the PUT payload, or the reason of the early return (the
\* seasons of a tv payload are left out)
PutDataFor(media_type, target_root_folder, server_id, profile_id) ==
    IF ~ValidProfileId(profile_id)
    THEN [ended |-> "no valid profile id", profile_id |-> profile_id, put_data |-> NoPutData]
    ELSE IF media_type \notin {Str("movie"), Str("tv")}
    THEN [ended |-> "unsupported media_type", profile_id |-> profile_id, put_data |-> NoPutData]
    ELSE IF server_id = NoneV
    THEN [ended |-> "missing server id", profile_id |-> profile_id, put_data |-> NoPutData]
    ELSE [ended |-> "",
          profile_id |-> profile_id,
          put_data |-> [mediaType |-> media_type, rootFolder |-> target_root_folder,
                        serverId |-> server_id, profileId |-> profile_id]]

\* the step "decision" up to the log line "Decision: ..."
Decision(categories, media_type, best_match, target_root_folder, context) ==
    LET known == HasCategory(categories, best_match)
        folder_data == CategoryCfg(categories, best_match.s)
    IN PutDataFor(media_type, target_root_folder,
                  IF ~known THEN NoneV
                  ELSE IF media_type = Str("movie") THEN folder_data.radarr_id
                  ELSE folder_data.sonarr_id,
                  ProfileIdFor(evaluate_quality_profile_rules(
                                   IF known THEN folder_data.quality_profile_rules ELSE << >>, context),
                               IF known THEN folder_data.default_profile_id ELSE NoneV))

\* the list handed to sorted() by the rule selector, as if sorted in place
RulesAfterSelection_SortedInPlace(rules) == SortedRules(rules)

\* sorted() builds a new list: the list of the configuration keeps its order
RulesAfterSelection(rules) == rules

\* the configuration after the step "decision" has handed the rule list of
\* the chosen category to the rule selector
ConfigAfterDecision(cfg, media_type, best_match) ==
    LET cm == CategoriesFor(cfg, media_type)
        after == [cm EXCEPT !.cats = [i \in 1..Len(cm.cats) |->
                     IF Str(cm.cats[i].name) = best_match
                     THEN [cm.cats[i] EXCEPT !.cfg.quality_profile_rules = RulesAfterSelection(@)]
                     ELSE cm.cats[i]]]
    IN IF media_type = Str("movie") THEN [cfg EXCEPT !.MOVIE_CATEGORIES = after]
       ELSE [cfg EXCEPT !.TV_CATEGORIES = after]

(***************************************************************************)
(* State: the configuration loaded at start, and the last operation run    *)
(* with its arguments and its outcome.                                     *)
(***************************************************************************)
VARIABLES categories, quality_profile_rules, last, args, result

\* The webhook server: the configuration read from config.yaml at import,
\* the worker threads serving webhooks with their local variables, and the
\* calls Overseerr and Notifiarr have received.
VARIABLES config, threads, upstream

vars == << categories, quality_profile_rules, last, args, result, config, threads, upstream >>

\* the server is not part of the run
NoServer == config = << >> /\ threads = << >> /\ upstream = << >>

(***************************************************************************)
(* Bounds and input sets                                                   *)
(***************************************************************************)
\* longest ANY / ALL / NONE list drawn
MaxBlockLen == 1
\* most categories in a category map
MaxCats == 2
\* most rules in a quality_profile_rules list
MaxRules == 2
\* most ratings in a list handed to pick_strictest
MaxRatings == 3

SeqsUpTo(S, n) == UNION {[1..k -> S] : k \in 0..n}

\* ---- condition evaluator ----
\* contexts with and without the key genres; the key absent_field is in none
Context(genres, status) ==
    [genres |-> ListOf(genres), status |-> Scalar(status), original_language |-> Scalar(Str("ja"))]
ContextNoGenres(status) ==
    [status |-> Scalar(status), original_language |-> Scalar(Str("ja"))]

CondContexts ==
    {Context(<< Str("Action"), Str("Comedy") >>, Str("Action")),
     Context(<< Str("Comedy"), Str("Drama") >>, Num(12)),
     Context(<< >>, NoneV),
     ContextNoGenres(Str("Action"))}

CompareOpsDrawn == {"==", "!=", "eq", "ne", "lt", "<", "gte", "contains", "rating_lte", "matches"}
MemberOpsDrawn == {"in", "not in", "not_in", "one_of"}

ItemsDrawn ==
    {Item(op, Scalar(v)) : op \in CompareOpsDrawn, v \in {Str("action"), Num(12)}}
    \cup {Item(op, tg) : op \in MemberOpsDrawn,
                         tg \in {ListOf(<< Str("ACTION"), Str("Comedy") >>), Scalar(Str("Drama"))}}
    \cup {Item(op, Scalar(v)) : op \in {"regex", "iregex"}, v \in {Str("act"), Str("(")}}
    \cup {Item("between", tg) : tg \in {ListOf(<< Num(1), Num(20) >>), ListOf(<< Str("a"), Str("b") >>),
                                       Scalar(Num(5)), MinMax(Num(1), NoneV)}}

QuantifiersDrawn == {NoneV, Str("All"), Str("none")}

SpecsDrawn ==
    {Leaf(<< it >>, q, FALSE) : it \in ItemsDrawn, q \in QuantifiersDrawn}
    \cup {Leaf(<< it >>, NoneV, TRUE) : it \in ItemsDrawn}
    \cup {Leaf(<< Item("matches", Scalar(Str("x"))), Item("regex", Scalar(Str("("))) >>, NoneV, FALSE),
          Leaf(<< Item("regex", Scalar(Str("("))), Item("matches", Scalar(Str("x"))) >>, NoneV, FALSE),
          Leaf(<< >>, Str("all"), FALSE),
          Plain(Str("action")), Plain(Num(12))}

\* the specs drawn next to a sibling leaf
PairedSpecsDrawn ==
    {Leaf(<< Item(op, Scalar(Str("action"))) >>, NoneV, FALSE) : op \in {"==", "!=", "matches"}}
    \cup {Leaf(<< Item("regex", Scalar(Str("("))) >>, NoneV, FALSE),
          Leaf(<< Item("between", Scalar(Num(5))) >>, NoneV, FALSE)}

\* leaves on other keys: one true, one false, one on a missing field and one
\* that raises, in every context drawn
TrueLeaf == << "original_language", Leaf(<< Item("eq", Scalar(Str("JA"))) >>, NoneV, FALSE) >>
FalseLeaf == << "original_language", Leaf(<< Item("eq", Scalar(Str("en"))) >>, NoneV, FALSE) >>
MissingLeaf == << "absent_field", Leaf(<< Item("ne", Scalar(Str("x"))) >>, NoneV, FALSE) >>
RaisingLeaf == << "original_language", Leaf(<< Item("regex", Scalar(Str("("))) >>, NoneV, FALSE) >>
SiblingLeaves == {TrueLeaf, FalseLeaf, MissingLeaf, RaisingLeaf}

SingleLeafMapsDrawn ==
    {FieldMap(<< << k, sp >> >>) : k \in {"genres", "status"}, sp \in SpecsDrawn}
    \cup {FieldMap(<< MissingLeaf >>), FieldMap(<< >>), NoneCond}

PairedLeafMapsDrawn ==
    {FieldMap(<< << k, sp >>, sib >>) : k \in {"genres", "status"}, sp \in PairedSpecsDrawn,
                                        sib \in SiblingLeaves}

LogicsDrawn == {"OR", "AND", "and", "xor"}

GenreItem == DictItem(<< << "genres", Leaf(<< Item("in", Scalar(Str("action"))) >>, NoneV, FALSE) >> >>)
CoreItems == {DictItem(<< TrueLeaf >>), DictItem(<< FalseLeaf >>), DictItem(<< MissingLeaf >>)}
CoreBlocks == {AbsentBlock} \cup {ListBlock(items) : items \in SeqsUpTo(CoreItems, MaxBlockLen)}
\* blocks that are not lists, and lists with an odd item
OddBlocks ==
    {OtherBlock(TRUE), OtherBlock(FALSE)}
    \cup {ListBlock(<< it >>) : it \in {NonDictItem, GenreItem, DictItem(<< RaisingLeaf >>),
                                       DictItem(<< MissingLeaf, RaisingLeaf >>),
                                       DictItem(<< RaisingLeaf, MissingLeaf >>)}}
PlainFieldsDrawn == {<< >>, << TrueLeaf >>}

CoreCombinatorsDrawn ==
    {Cond(a, l, n, f) : a \in CoreBlocks, l \in CoreBlocks, n \in CoreBlocks, f \in PlainFieldsDrawn}
OddCombinatorsDrawn ==
    LET few == {AbsentBlock, ListBlock(<< DictItem(<< TrueLeaf >>) >>)}
    IN {Cond(o, x, y, f) : o \in OddBlocks, x \in few, y \in few, f \in PlainFieldsDrawn}
       \cup {Cond(x, o, y, f) : o \in OddBlocks, x \in few, y \in few, f \in PlainFieldsDrawn}
       \cup {Cond(x, y, o, f) : o \in OddBlocks, x \in few, y \in few, f \in PlainFieldsDrawn}

CombinatorContexts ==
    {Context(<< Str("Action"), Str("Comedy") >>, Str("Action")), ContextNoGenres(NoneV)}

(***************************************************************************)
(* The condition evaluator on its own                                      *)
(***************************************************************************)
NoCategories == [default |-> NoneV, cats |-> << >>]

InitCond ==
    /\ categories = NoCategories
    /\ quality_profile_rules = << >>
    /\ last = "none"
    /\ args = << >>
    /\ result = << >>
    /\ NoServer

\* the caller hands a condition, a context and a logic to evaluate_condition
Evaluate(condition, context, logic) ==
    /\ last' = "evaluate_condition"
    /\ args' = [condition |-> condition, context |-> context, logic |-> logic]
    /\ result' = evaluate_condition(condition, context, logic)
    /\ UNCHANGED << categories, quality_profile_rules, config, threads, upstream >>

EvaluateCondition ==
    /\ last = "none"
    /\ \/ \E c \in SingleLeafMapsDrawn, x \in CondContexts, lg \in {"OR", "and"} : Evaluate(c, x, lg)
       \/ \E c \in PairedLeafMapsDrawn, x \in CondContexts, lg \in LogicsDrawn : Evaluate(c, x, lg)
       \/ \E c \in CoreCombinatorsDrawn, x \in CombinatorContexts, lg \in {"OR", "AND"} : Evaluate(c, x, lg)
       \/ \E c \in OddCombinatorsDrawn, x \in CombinatorContexts : Evaluate(c, x, "OR")

\* the caller has consumed the outcome
Return ==
    /\ last /= "none"
    /\ last' = "none"
    /\ args' = << >>
    /\ result' = << >>
    /\ UNCHANGED << categories, quality_profile_rules, config, threads, upstream >>

NextCond == EvaluateCondition \/ Return

SpecCond == InitCond /\ [][NextCond]_vars

(***************************************************************************)
(* The category scorer on its own: a validated category map is loaded at   *)
(* start, requests bring the media.                                        *)
(***************************************************************************)
CatCfg(weight, genres, keywords, providers, networks, has_ratings, ceiling, prefer) ==
    [weight |-> weight, genres |-> genres, keywords |-> keywords, providers |-> providers,
     networks |-> networks, has_ratings |-> has_ratings, ceiling |-> ceiling, prefer |-> prefer,
     root_folder |-> ""]

\* four kinds of category: no filters and no ratings; a genre with a
\* ceiling; keyword, provider and network; genre and keyword with a ceiling
\* and a prefer
CatTemplates ==
    {CatCfg(f[1], f[2], f[3], f[4], f[5], f[6] /= NoneV, f[6], f[7]) :
        f \in {<< 10, << >>, << >>, << >>, << >>, NoneV, NoneV >>,
               << 10, << "drama" >>, << >>, << >>, << >>, Str("PG-13"), NoneV >>,
               << 50, << "drama" >>, << >>, << >>, << >>, Str("PG-13"), NoneV >>,
               << 10, << >>, << "heist" >>, << "Netflix" >>, << "HBO" >>, NoneV, NoneV >>,
               << 50, << >>, << "heist" >>, << "Netflix" >>, << "HBO" >>, NoneV, NoneV >>,
               << 50, << "Dramas" >>, << "heist" >>, << >>, << >>, Str("r"), Str("pg") >>}}

CatNames == << "Movies", "Family", "Docs", "Anime" >>

\* the entries of a category map built from a sequence of templates
CatEntries(ts) ==
    [i \in 1..Len(ts) |->
        [name |-> CatNames[i], cfg |-> [ts[i] EXCEPT !.root_folder = "/media/" \o CatNames[i]]]]

\* the maps validate_categories accepts: the default key names an entry
CategoryMapsDrawn ==
    {[default |-> Str(CatNames[d]), cats |-> CatEntries(ts)] :
        d \in 1..MaxCats, ts \in SeqsUpTo(CatTemplates, MaxCats) \ {<< >>}}

ValidCategoryMap(cm) == HasCategory(cm, cm.default)

MediaDrawn ==
    {[genres |-> g, keywords |-> kpn[1], providers |-> kpn[2], networks |-> kpn[3], final_rating |-> r] :
        g \in {<< >>, << "Drama" >>},
        kpn \in {<< << >>, << >>, << >> >>, << << "Heist" >>, << "netflix" >>, << >> >>,
                 << << >>, << >>, << "HBO" >> >>},
        r \in {NoneV, Str("PG"), Str("NC-17")}}

InitCat ==
    /\ categories \in {cm \in CategoryMapsDrawn : ValidCategoryMap(cm)}
    /\ quality_profile_rules = << >>
    /\ last = "none"
    /\ args = << >>
    /\ result = << >>
    /\ NoServer

CategoriseMediaScored ==
    /\ last = "none"
    /\ \E media \in MediaDrawn :
          /\ last' = "categorise_media_scored"
          /\ args' = media
          /\ result' = categorise_media_scored(categories, media)
          /\ UNCHANGED << categories, quality_profile_rules, config, threads, upstream >>

NextCat == CategoriseMediaScored \/ Return

SpecCat == InitCat /\ [][NextCat]_vars

(***************************************************************************)
(* The rule selector on its own: the rule list of a category is loaded at  *)
(* start, requests bring the context.                                      *)
(***************************************************************************)
EndedOrEnglish ==
    FieldMap(<< << "status", Plain(Str("Ended")) >>, FalseLeaf >>)

RuleTemplates ==
    {Rule(p, lg, c, NoneV) :
        p \in {NoneV, Num(1), Num(9999), Num(10000)},
        lg \in {NoneV, Str("and")},
        c \in {FieldMap(<< >>), EndedOrEnglish, FieldMap(<< RaisingLeaf >>)}}

\* the rule at position i carries the profile id 100 + i
RuleList(ts) == [i \in 1..Len(ts) |-> [ts[i] EXCEPT !.profile_id = Num(100 + i)]]

RuleListsDrawn == {RuleList(ts) : ts \in SeqsUpTo(RuleTemplates, MaxRules)}

RuleContexts ==
    {[status |-> Scalar(Str(st)), original_language |-> Scalar(Str("ja"))] :
        st \in {"Ended", "Returning Series"}}

InitRules ==
    /\ categories = NoCategories
    /\ quality_profile_rules \in RuleListsDrawn
    /\ last = "none"
    /\ args = << >>
    /\ result = << >>
    /\ NoServer

EvaluateQualityProfileRules ==
    /\ last = "none"
    /\ \E context \in RuleContexts :
          /\ last' = "evaluate_quality_profile_rules"
          /\ args' = context
          /\ result' = evaluate_quality_profile_rules(quality_profile_rules, context)
          /\ UNCHANGED << categories, quality_profile_rules, config, threads, upstream >>

NextRules == EvaluateQualityProfileRules \/ Return

SpecRules == InitRules /\ [][NextRules]_vars

(***************************************************************************)
(* The rating helpers on their own                                         *)
(***************************************************************************)
\* canonical ratings, a lower-case one and an unknown one
RatingsDrawn == {"G", "PG-13", "R", "pg", "XX"}

\* every canonical rating, aliases in several spellings, and unknown input
RawRatingsDrawn ==
    {NoneV, Str("")}
    \cup {Str(RATING_ORDER[i]) : i \in 1..Len(RATING_ORDER)}
    \cup {Str(r) : r \in {"pg-13", " PG 13 ", "P-G13", "tv ma", "tvy7", "r18+", "x-18", "ma 15",
                          "G ", " nc17", "xyz", "PG14", "- ", "13", "T-V-1-4"}}

InitRatings ==
    /\ categories = NoCategories
    /\ quality_profile_rules = << >>
    /\ last = "none"
    /\ args = << >>
    /\ result = << >>
    /\ NoServer

PickStrictest ==
    /\ last = "none"
    /\ \E mapped \in SeqsUpTo(RatingsDrawn, MaxRatings) :
          /\ last' = "pick_strictest"
          /\ args' = mapped
          /\ result' = pick_strictest(mapped)
          /\ UNCHANGED << categories, quality_profile_rules, config, threads, upstream >>

NormaliseRating ==
    /\ last = "none"
    /\ \E raw \in RawRatingsDrawn :
          /\ last' = "normalise_rating"
          /\ args' = raw
          /\ result' = normalise_rating(raw)
          /\ UNCHANGED << categories, quality_profile_rules, config, threads, upstream >>

NextRatings == PickStrictest \/ NormaliseRating \/ Return

SpecRatings == InitRatings /\ [][NextRatings]_vars

(***************************************************************************)
(* The anime gate on its own: requests bring the media details.            *)
(***************************************************************************)
AnimeMediaDrawn ==
    {[genres |-> g, keywords |-> k, original_language |-> l, production_companies |-> c, networks |-> n] :
        g \in {<< >>, << "Animation" >>, << "Drama", "ANIMATION" >>, << "Animated" >>},
        k \in {<< >>, << "Anime" >>, << "heist", " donghua " >>, << "animes" >>, << "" >>},
        l \in {NoneV, Str("ja"), Str("KO"), Str("en")},
        c \in {<< >>, << "MAPPA" >>, << "Pixar" >>, << "TBS" >>},
        n \in {<< >>, << "TV Tokyo" >>, << "HBO" >>, << "Bones" >>}}

InitAnime ==
    /\ categories = NoCategories
    /\ quality_profile_rules = << >>
    /\ last = "none"
    /\ args = << >>
    /\ result = << >>
    /\ NoServer

IsAnimeHard ==
    /\ last = "none"
    /\ \E media \in AnimeMediaDrawn :
          /\ last' = "is_anime_hard"
          /\ args' = media
          /\ result' = is_anime_hard(media.genres, media.keywords, media.original_language,
                                     media.production_companies, media.networks)
          /\ UNCHANGED << categories, quality_profile_rules, config, threads, upstream >>

NextAnime == IsAnimeHard \/ Return

SpecAnime == InitAnime /\ [][NextAnime]_vars

(***************************************************************************)
(* Validation of the category maps                                         *)
(*                                                                         *)
(* A category map as config.yaml holds it: the value of the key "default"  *)
(* (None when missing) and the other entries in file order.  An entry is   *)
(* a mapping or not; of a mapping the model keeps what validate_categories *)
(* reads: is_anime ("absent", "bool" or "other"), filters and ratings     *)
(* ("absent", "mapping" or "other"), and as values (None when the key is   *)
(* missing) apply.root_folder, apply.radarr_id, apply.sonarr_id,           *)
(* apply.default_profile_id, weight, ratings.ceiling and ratings.prefer.   *)
(***************************************************************************)
\* the checks of one entry of the map
ValidEntry(data, media_type) ==
    IF ~data.is_mapping THEN FALSE
    ELSE LET id == IF media_type = "tv" THEN data.sonarr_id ELSE data.radarr_id
         IN /\ data.is_anime \in {"absent", "bool"}
            /\ data.root_folder /= NoneV
            /\ id.t = "num"
            /\ data.default_profile_id.t = "num"
            /\ data.weight.t = "num"
            /\ data.filters \in {"absent", "mapping"}
            /\ data.ratings /= "other"
            /\ data.ratings = "mapping" =>
                  /\ data.ceiling /= NoneV => normalise_rating(Str(PyStr(data.ceiling))) /= NoneV
                  /\ data.prefer /= NoneV => normalise_rating(Str(PyStr(data.prefer))) /= NoneV

\* `default_key not in categories`: the key "default" itself is a key of
\* the map whenever default_key is not None
InCategories(raw, default_key) ==
    \/ default_key = Str("default")
    \/ \E i \in 1..Len(raw.cats) : Str(raw.cats[i].name) = default_key

validate_categories(raw, media_type) ==
    /\ raw.default /= NoneV
    /\ \A i \in 1..Len(raw.cats) : ValidEntry(raw.cats[i], media_type)
    /\ ~(Truthy(raw.default) /\ ~InCategories(raw, raw.default))

\* the exit status of validate_configuration, None when it returns
validate_configuration(tv_categories, movie_categories) ==
    LET tv_ok == validate_categories(tv_categories, "tv")
        movie_ok == validate_categories(movie_categories, "movie")
    IN IF ~(tv_ok /\ movie_ok) THEN Num(1) ELSE NoneV

\* ---- inputs ----
RawEntry ==
    [name |-> "Movies", is_mapping |-> TRUE, is_anime |-> "absent", filters |-> "mapping",
     ratings |-> "absent", root_folder |-> Str("/media/Movies"), radarr_id |-> Num(1),
     sonarr_id |-> Num(2), default_profile_id |-> Num(4), weight |-> Num(10),
     ceiling |-> NoneV, prefer |-> NoneV, has_rules |-> FALSE]

\* entries with at most one thing wrong
RawEntriesDrawn ==
    {RawEntry,
     [RawEntry EXCEPT !.has_rules = TRUE],
     [RawEntry EXCEPT !.is_anime = "bool", !.filters = "absent"],
     [RawEntry EXCEPT !.ratings = "mapping", !.ceiling = Str("pg13"), !.prefer = Str("TV 14")],
     [RawEntry EXCEPT !.ratings = "mapping"],
     [RawEntry EXCEPT !.weight = NoneV],
     [RawEntry EXCEPT !.weight = Str("10")],
     [RawEntry EXCEPT !.root_folder = NoneV],
     [RawEntry EXCEPT !.root_folder = Str("")],
     [RawEntry EXCEPT !.radarr_id = NoneV],
     [RawEntry EXCEPT !.sonarr_id = Str("2")],
     [RawEntry EXCEPT !.default_profile_id = NoneV],
     [RawEntry EXCEPT !.default_profile_id = NoneV, !.has_rules = TRUE],
     [RawEntry EXCEPT !.default_profile_id = Str("4")],
     [RawEntry EXCEPT !.ratings = "mapping", !.ceiling = Str("PG-14")],
     [RawEntry EXCEPT !.ratings = "mapping", !.prefer = Num(13)],
     [RawEntry EXCEPT !.is_anime = "other"],
     [RawEntry EXCEPT !.filters = "other"],
     [RawEntry EXCEPT !.ratings = "other"],
     [RawEntry EXCEPT !.is_mapping = FALSE]}

\* maps of one entry, or of a sound entry "Family" and one more, with the
\* key "default" missing, naming an entry, or naming none
RawMapsDrawn ==
    {[default |-> d, cats |-> << e >>] :
        d \in {NoneV, Str("Movies"), Str("Shows"), Str(""), Str("default")},
        e \in RawEntriesDrawn}
    \cup {[default |-> d, cats |-> << [RawEntry EXCEPT !.name = "Family"], e >>] :
        d \in {Str("Family"), Str("Movies")}, e \in RawEntriesDrawn}

\* a map validate_categories accepts for both media types
SoundMap == [default |-> Str("Movies"), cats |-> << RawEntry >>]

InitValidate ==
    /\ categories = NoCategories
    /\ quality_profile_rules = << >>
    /\ last = "none"
    /\ args = << >>
    /\ result = << >>
    /\ NoServer

ValidateCategories ==
    /\ last = "none"
    /\ \E raw \in RawMapsDrawn, media_type \in {"tv", "movie"} :
          /\ last' = "validate_categories"
          /\ args' = [categories |-> raw, media_type |-> media_type]
          /\ result' = validate_categories(raw, media_type)
          /\ UNCHANGED << categories, quality_profile_rules, config, threads, upstream >>

\* validate_configuration with one map drawn and the other one sound
ValidateConfiguration ==
    /\ last = "none"
    /\ \E raw \in RawMapsDrawn, drawn \in {"tv", "movie"} :
          /\ last' = "validate_configuration"
          /\ args' = [TV_CATEGORIES |-> IF drawn = "tv" THEN raw ELSE SoundMap,
                      MOVIE_CATEGORIES |-> IF drawn = "movie" THEN raw ELSE SoundMap]
          /\ result' = validate_configuration(args'.TV_CATEGORIES, args'.MOVIE_CATEGORIES)
          /\ UNCHANGED << categories, quality_profile_rules, config, threads, upstream >>

NextValidate == ValidateCategories \/ ValidateConfiguration \/ Return

SpecValidate == InitValidate /\ [][NextValidate]_vars

(***************************************************************************)
(* The webhook server: handle_request and process_request, one worker      *)
(* thread per webhook.  A thread holds the local variables of              *)
(* process_request and its position in it (pc, named after the step about  *)
(* to run); upstream[t] lists the calls made for the webhook of thread t.  *)
(* The module validates the configuration only when run as the main        *)
(* program, so the category maps are the ones config.yaml can hold.        *)
(***************************************************************************)
NoDetails ==
    [genres |-> << >>, keywords |-> << >>, providers |-> << >>, production_companies |-> << >>,
     networks |-> << >>, original_language |-> NoneV, status |-> NoneV, release_year |-> NoneV,
     final_rating |-> NoneV]

NoWebhook ==
    [token_header |-> "", token_body |-> NoneV, json_ok |-> TRUE, notification_type |-> "",
     request_id |-> NoneV, tmdbId |-> NoneV, media_type |-> NoneV]

Idle ==
    [pc |-> "idle", request |-> NoWebhook, details |-> NoDetails, best_match |-> NoneV,
     target_root_folder |-> NoneV, scored |-> FALSE, best_score |-> NoneV, profile_id |-> NoneV,
     put_data |-> NoPutData, current_status |-> NoneV, ended |-> "", response |-> 0]

Call(name, ok, payload) == [call |-> name, ok |-> ok, payload |-> payload]

\* process_request returns early: handle_request answers 202
Ended(th, why) == [th EXCEPT !.pc = "done", !.ended = why, !.response = 202]
\* an exception leaves process_request and handle_request: Flask answers 500
Raised(th, why) == [th EXCEPT !.pc = "done", !.ended = why, !.response = 500]
\* handle_request answers without calling process_request
Answered(th, code) == [th EXCEPT !.pc = "done", !.ended = "not processed", !.response = code]

\* the token handle_request compares: the header, else the one in the body
Provided(w) ==
    LET header == StrStrip(w.token_header)
    IN IF header /= "" THEN header
       ELSE IF w.json_ok /\ Truthy(w.token_body) THEN StrStrip(w.token_body.s)
       ELSE ""

\* as if any token supplied were accepted
Authorised_AnyToken(w) ==
    \/ ~Truthy(config.WEBHOOK_TOKEN)
    \/ Provided(w) /= ""

\* ENFORCE_WEBHOOK_TOKEN is bool(WEBHOOK_TOKEN)
Authorised(w) ==
    \/ ~Truthy(config.WEBHOOK_TOKEN)
    \/ Provided(w) /= "" /\ Provided(w) = PyStr(config.WEBHOOK_TOKEN)

\* handle_request up to the first upstream call of process_request
HandleRequest(t, w) ==
    /\ threads[t].pc = "idle"
    /\ LET th == [threads[t] EXCEPT !.request = w]
       IN threads' = [threads EXCEPT ![t] =
            IF ~Authorised(w) THEN Answered(th, 401)
            ELSE IF ~w.json_ok THEN Answered(th, 400)
            ELSE IF w.notification_type = "TEST_NOTIFICATION" THEN Answered(th, 200)
            ELSE IF w.notification_type /= "MEDIA_PENDING" THEN Answered(th, 400)
            ELSE IF ~(Truthy(w.request_id) /\ Truthy(w.tmdbId) /\ Truthy(w.media_type))
            THEN Ended(th, "payload incomplete")
            ELSE [th EXCEPT !.pc = "fetch details"]]
    /\ UNCHANGED << categories, quality_profile_rules, last, args, result, config, upstream >>

\* the step "fetch details" and get_media_data; details = None stands for
\* get_media raising
FetchDetails(t, details) ==
    /\ threads[t].pc = "fetch details"
    /\ upstream' = [upstream EXCEPT ![t] = Append(@, Call("get_media", details /= NoneV, NoPutData))]
    /\ threads' = [threads EXCEPT ![t] =
          IF details = NoneV THEN Ended(@, "fetch failure")
          ELSE [@ EXCEPT !.pc = "anime gate",
                         !.details = [details EXCEPT !.networks =
                              IF threads[t].request.media_type = Str("tv") THEN @ ELSE << >>]]]
    /\ UNCHANGED << categories, quality_profile_rules, last, args, result, config >>

AfterGate(th, gate) ==
    [th EXCEPT !.pc = "scoring", !.best_match = gate.best_match,
               !.target_root_folder = gate.target_root_folder]

\* the step "anime gate"
AnimeGateStep(t) ==
    /\ threads[t].pc = "anime gate"
    /\ threads' = [threads EXCEPT ![t] =
          AfterGate(@, AnimeGate(CategoriesFor(config, threads[t].request.media_type),
                                 threads[t].details))]
    /\ UNCHANGED << categories, quality_profile_rules, last, args, result, config, upstream >>

\* the scorer's tuple taken over, and the return when it names no category
AfterScoring(th, scored) ==
    IF NoRoute(scored.root_folder, scored.category)
    THEN Ended([th EXCEPT !.scored = TRUE, !.best_match = scored.category,
                          !.target_root_folder = scored.root_folder], "no category")
    ELSE [th EXCEPT !.pc = "decision", !.scored = TRUE, !.best_match = scored.category,
                    !.target_root_folder = scored.root_folder, !.best_score = scored.score]

\* the step "scoring"
Scoring(t) ==
    /\ threads[t].pc = "scoring"
    /\ threads' = [threads EXCEPT ![t] =
          IF ~NoRoute(@.target_root_folder, @.best_match) THEN [@ EXCEPT !.pc = "decision"]
          ELSE AfterScoring(@, categorise_media_scored(
                                   CategoriesFor(config, threads[t].request.media_type),
                                   threads[t].details))]
    /\ UNCHANGED << categories, quality_profile_rules, last, args, result, config, upstream >>

\* as if DRY_RUN were not looked at
AfterDecision_IgnoreDryRun(th, d) ==
    IF d.ended /= "" THEN Ended([th EXCEPT !.profile_id = d.profile_id], d.ended)
    ELSE [th EXCEPT !.profile_id = d.profile_id, !.put_data = d.put_data,
                    !.pc = "get_request_status"]

\* the outcome of the decision taken over, and the branch on DRY_RUN
AfterDecision(th, d) ==
    IF d.ended /= "" THEN Ended([th EXCEPT !.profile_id = d.profile_id], d.ended)
    ELSE [th EXCEPT !.profile_id = d.profile_id, !.put_data = d.put_data,
                    !.pc = IF config.DRY_RUN THEN "notify" ELSE "get_request_status"]

\* the step "decision" up to the branch on DRY_RUN
DecisionStep(t) ==
    /\ threads[t].pc = "decision"
    /\ threads' = [threads EXCEPT ![t] =
          AfterDecision(@, Decision(CategoriesFor(config, @.request.media_type), @.request.media_type,
                                    @.best_match, @.target_root_folder,
                                    RequestContextOf(@.details, @.request.media_type, Str("alice"))))]
    /\ config' = ConfigAfterDecision(config, threads[t].request.media_type, threads[t].best_match)
    /\ UNCHANGED << categories, quality_profile_rules, last, args, result, upstream >>

\* current_status = overseerr_client.get_request_status(request_id); the
\* status "raise" stands for the session raising
GetRequestStatus(t, status) ==
    /\ threads[t].pc = "get_request_status"
    /\ upstream' = [upstream EXCEPT ![t] = Append(@, Call("get_request_status", status /= Str("raise"), NoPutData))]
    /\ threads' = [threads EXCEPT ![t] =
          IF status = Str("raise") THEN Ended(@, "update failure")
          ELSE [@ EXCEPT !.pc = "put_request", !.current_status = status]]
    /\ UNCHANGED << categories, quality_profile_rules, last, args, result, config >>

\* as if an approved request were approved again
AfterPut_IgnoreStatus(current_status) ==
    IF config.ALLOW_AUTO_APPROVE THEN "approve_request" ELSE "notify"

\* what follows a successful PUT
AfterPut(current_status) ==
    IF config.ALLOW_AUTO_APPROVE /\ current_status /= Num(2) THEN "approve_request" ELSE "notify"

\* overseerr_client.put_request(request_id, put_data)
PutRequest(t, ok) ==
    /\ threads[t].pc = "put_request"
    /\ upstream' = [upstream EXCEPT ![t] = Append(@, Call("put_request", ok, threads[t].put_data))]
    /\ threads' = [threads EXCEPT ![t] =
          IF ~ok THEN Ended(@, "update failure")
          ELSE [@ EXCEPT !.pc = AfterPut(threads[t].current_status)]]
    /\ UNCHANGED << categories, quality_profile_rules, last, args, result, config >>

\* overseerr_client.approve_request(request_id)
ApproveRequest(t, ok) ==
    /\ threads[t].pc = "approve_request"
    /\ upstream' = [upstream EXCEPT ![t] = Append(@, Call("approve_request", ok, NoPutData))]
    /\ threads' = [threads EXCEPT ![t] =
          IF ~ok THEN Ended(@, "update failure") ELSE [@ EXCEPT !.pc = "notify"]]
    /\ UNCHANGED << categories, quality_profile_rules, last, args, result, config >>

\* the status read and the notification sent for it, when a key is set
StatusAndNotification(calls, status_ok) ==
    IF ~status_ok THEN Append(calls, Call("get_request_status", FALSE, NoPutData))
    ELSE Append(calls, Call("get_request_status", TRUE, NoPutData))
         \o (IF Truthy(config.NOTIFIARR_APIKEY)
             THEN << Call("send_notifiarr_passthrough", TRUE, NoPutData) >> ELSE << >>)

\* the step "notify" inside the request context
Notify(t, status_ok) ==
    /\ threads[t].pc = "notify"
    /\ IF Truthy(config.NOTIFIARR_APIKEY)
       THEN /\ upstream' = [upstream EXCEPT ![t] = StatusAndNotification(@, status_ok)]
            /\ threads' = [threads EXCEPT ![t] =
                  IF status_ok THEN [@ EXCEPT !.pc = "final notification"]
                  ELSE Raised(@, "get_request_status raised")]
       ELSE /\ status_ok
            /\ threads' = [threads EXCEPT ![t] = [@ EXCEPT !.pc = "final notification"]]
            /\ UNCHANGED upstream
    /\ UNCHANGED << categories, quality_profile_rules, last, args, result, config >>

\* "Final status and notification", after the request context is left
FinalNotification(t, status_ok) ==
    /\ threads[t].pc = "final notification"
    /\ upstream' = [upstream EXCEPT ![t] = StatusAndNotification(@, status_ok)]
    /\ threads' = [threads EXCEPT ![t] =
          IF status_ok THEN [@ EXCEPT !.pc = "done", !.response = 202]
          ELSE Raised(@, "get_request_status raised")]
    /\ UNCHANGED << categories, quality_profile_rules, last, args, result, config >>

\* ---- inputs ----
ReqCfg(weight, genres, ceiling, is_anime, default_profile_id, rules, radarr_id, sonarr_id, root_folder) ==
    [is_anime |-> is_anime, default_profile_id |-> default_profile_id,
     quality_profile_rules |-> rules, radarr_id |-> radarr_id, sonarr_id |-> sonarr_id,
     root_folder |-> root_folder]
    @@ CatCfg(weight, genres, << >>, << >>, << >>, ceiling /= NoneV, ceiling, NoneV)

StatusEnded == FieldMap(<< << "status", Plain(Str("Ended")) >> >>)
LanguageJa == FieldMap(<< << "original_language", Plain(Str("ja")) >> >>)

\* not in priority order; the rule of priority 1 selects the profile id 0
RulesByLanguageThenStatus ==
    << Rule(Num(2), NoneV, StatusEnded, Num(7)), Rule(Num(1), NoneV, LanguageJa, Num(0)) >>

Entry(name, cfg) == [name |-> name, cfg |-> cfg]

MoviesCat ==
    Entry("Movies", ReqCfg(10, << "drama" >>, NoneV, FALSE, Num(4), RulesByLanguageThenStatus,
                           Num(1), Num(2), "/media/Movies"))
\* a ceiling, and no default_profile_id
FamilyCat ==
    Entry("Family", ReqCfg(50, << "drama" >>, Str("PG-13"), FALSE, NoneV,
                           << Rule(NoneV, NoneV, StatusEnded, Num(7)) >>,
                           Num(1), Num(2), "/media/Family"))
\* marked, with a ceiling, and no sonarr_id
AnimeCat ==
    Entry("Anime", ReqCfg(10, << >>, Str("PG-13"), TRUE, Num(6), << >>, Num(1), NoneV, "/media/Anime"))
AnimeUHDCat ==
    Entry("AnimeUHD", ReqCfg(50, << >>, NoneV, TRUE, Num(8), RulesByLanguageThenStatus,
                             Num(1), Num(2), "/media/AnimeUHD"))
\* marked, with an empty apply.root_folder
AnimeNoRootCat ==
    Entry("AnimeNoRoot", ReqCfg(50, << >>, NoneV, TRUE, Num(8), << >>, Num(1), Num(2), ""))

RequestCategoryMaps ==
    << [default |-> Str("Movies"), cats |-> << MoviesCat, FamilyCat >>],
       [default |-> Str("Family"), cats |-> << MoviesCat, FamilyCat, AnimeCat >>],
       [default |-> Str("Movies"), cats |-> << MoviesCat, AnimeCat, AnimeUHDCat >>],
       [default |-> NoneV, cats |-> << FamilyCat, AnimeNoRootCat >>] >>

Details(genres, keywords, networks, original_language, status, final_rating) ==
    [genres |-> genres, keywords |-> keywords, providers |-> << >>, production_companies |-> << >>,
     networks |-> networks, original_language |-> Str(original_language), status |-> Str(status),
     release_year |-> Num(1999), final_rating |-> final_rating]

DetailsDrawn ==
    {Details(<< "Drama" >>, << >>, << >>, "en", "Ended", Str("PG")),
     Details(<< "Drama" >>, << >>, << >>, "en", "Returning Series", Str("PG")),
     Details(<< "Animation" >>, << >>, << >>, "ja", "Returning Series", Str("NC-17")),
     Details(<< "Drama" >>, << >>, << "TV Tokyo" >>, "en", "Returning Series", Str("NC-17")),
     Details(<< >>, << >>, << >>, "en", "Ended", Str("NC-17")),
     Details(<< "Drama" >>, << " donghua " >>, << >>, "ja", "Ended", NoneV)}

Webhook(token_header, token_body, json_ok, notification_type, request_id, media_type) ==
    [token_header |-> token_header, token_body |-> token_body, json_ok |-> json_ok,
     notification_type |-> notification_type, request_id |-> request_id, tmdbId |-> Num(603),
     media_type |-> media_type]

\* webhooks without a token
WebhooksDrawn ==
    {Webhook("", NoneV, TRUE, "MEDIA_PENDING", Num(5), Str(mt)) : mt \in {"movie", "tv", "music"}}
    \cup {Webhook("", NoneV, TRUE, "MEDIA_PENDING", NoneV, Str("movie")),
          Webhook("", NoneV, TRUE, "TEST_NOTIFICATION", NoneV, NoneV),
          Webhook("", NoneV, TRUE, "MEDIA_APPROVED", Num(5), Str("movie")),
          Webhook("", NoneV, FALSE, "", NoneV, NoneV)}

\* webhooks with and without a token in the header and in the body
TokenWebhooksDrawn ==
    {Webhook(h, b, k[1], k[2], Num(5), Str("movie")) :
        h \in {"", "s3cret", "wrong"},
        b \in {NoneV, Str("s3cret"), Str(" s3cret "), Str("wrong")},
        k \in {<< TRUE, "MEDIA_PENDING" >>, << TRUE, "TEST_NOTIFICATION" >>, << FALSE, "" >>}}

StatusesDrawn == {NoneV, Num(1), Num(2), Str("raise")}

Config(dry_run, allow_auto_approve, apikey, token, movie, tv) ==
    [DRY_RUN |-> dry_run, ALLOW_AUTO_APPROVE |-> allow_auto_approve, NOTIFIARR_APIKEY |-> apikey,
     WEBHOOK_TOKEN |-> token, MOVIE_CATEGORIES |-> RequestCategoryMaps[movie],
     TV_CATEGORIES |-> RequestCategoryMaps[tv]]

\* most webhooks served at the same time
MaxThreads == 2

InitServer(configs, n) ==
    /\ categories = NoCategories
    /\ quality_profile_rules = << >>
    /\ last = "none"
    /\ args = << >>
    /\ result = << >>
    /\ config \in configs
    /\ threads = [t \in 1..n |-> Idle]
    /\ upstream = [t \in 1..n |-> << >>]

\* ---- one webhook, no token configured ----
InitRequest ==
    InitServer({Config(d, a, k, NoneV, m, (m % Len(RequestCategoryMaps)) + 1) :
                   d \in BOOLEAN, a \in BOOLEAN, k \in {NoneV, Str("key")},
                   m \in 1..Len(RequestCategoryMaps)}, 1)

NextRequest ==
    \/ \E t \in DOMAIN threads, w \in WebhooksDrawn : HandleRequest(t, w)
    \/ \E t \in DOMAIN threads, details \in DetailsDrawn \cup {NoneV} : FetchDetails(t, details)
    \/ \E t \in DOMAIN threads : AnimeGateStep(t)
    \/ \E t \in DOMAIN threads : Scoring(t)
    \/ \E t \in DOMAIN threads : DecisionStep(t)
    \/ \E t \in DOMAIN threads, status \in StatusesDrawn : GetRequestStatus(t, status)
    \/ \E t \in DOMAIN threads, ok \in BOOLEAN : PutRequest(t, ok)
    \/ \E t \in DOMAIN threads, ok \in BOOLEAN : ApproveRequest(t, ok)
    \/ \E t \in DOMAIN threads, status_ok \in BOOLEAN : Notify(t, status_ok)
    \/ \E t \in DOMAIN threads, status_ok \in BOOLEAN : FinalNotification(t, status_ok)

SpecRequest == InitRequest /\ [][NextRequest]_vars

\* ---- one webhook, with and without a configured token ----
InitWebhook ==
    InitServer({Config(FALSE, TRUE, Str("key"), token, 2, 3) : token \in {NoneV, Str("s3cret")}}, 1)

NextWebhook ==
    \/ \E t \in DOMAIN threads, w \in TokenWebhooksDrawn : HandleRequest(t, w)
    \/ \E t \in DOMAIN threads, details \in DetailsDrawn \cup {NoneV} : FetchDetails(t, details)
    \/ \E t \in DOMAIN threads : AnimeGateStep(t)
    \/ \E t \in DOMAIN threads : Scoring(t)
    \/ \E t \in DOMAIN threads : DecisionStep(t)
    \/ \E t \in DOMAIN threads, status \in StatusesDrawn : GetRequestStatus(t, status)
    \/ \E t \in DOMAIN threads, ok \in BOOLEAN : PutRequest(t, ok)
    \/ \E t \in DOMAIN threads, ok \in BOOLEAN : ApproveRequest(t, ok)
    \/ \E t \in DOMAIN threads, status_ok \in BOOLEAN : Notify(t, status_ok)
    \/ \E t \in DOMAIN threads, status_ok \in BOOLEAN : FinalNotification(t, status_ok)

SpecWebhook == InitWebhook /\ [][NextWebhook]_vars

\* ---- MaxThreads webhooks served at the same time ----
\* rule lists out of priority order in both category maps, no dry run
ConcurrentConfig == Config(FALSE, TRUE, Str("key"), NoneV, 3, 1)

ConcurrentWebhooksDrawn == {Webhook("", NoneV, TRUE, "MEDIA_PENDING", Num(5), Str("movie"))}

\* one request for the scorer and one for the gate
ConcurrentDetailsDrawn ==
    {Details(<< "Drama" >>, << >>, << >>, "en", "Ended", Str("PG")),
     Details(<< "Animation" >>, << >>, << >>, "ja", "Returning Series", Str("NC-17"))}

InitConcurrent == InitServer({ConcurrentConfig}, MaxThreads)

\* the threads take their steps in any order; Overseerr answers every call
NextConcurrent ==
    \/ \E t \in DOMAIN threads, w \in ConcurrentWebhooksDrawn : HandleRequest(t, w)
    \/ \E t \in DOMAIN threads, details \in ConcurrentDetailsDrawn : FetchDetails(t, details)
    \/ \E t \in DOMAIN threads : AnimeGateStep(t)
    \/ \E t \in DOMAIN threads : Scoring(t)
    \/ \E t \in DOMAIN threads : DecisionStep(t)
    \/ \E t \in DOMAIN threads : GetRequestStatus(t, Num(1))
    \/ \E t \in DOMAIN threads : PutRequest(t, TRUE)
    \/ \E t \in DOMAIN threads : ApproveRequest(t, TRUE)
    \/ \E t \in DOMAIN threads : Notify(t, TRUE)
    \/ \E t \in DOMAIN threads : FinalNotification(t, TRUE)

SpecConcurrent == InitConcurrent /\ [][NextConcurrent]_vars

(***************************************************************************)
(* Properties of the condition evaluator (SpecCond)                        *)
(***************************************************************************)
Evaluated == last = "evaluate_condition"

\* the condition has none of the keys ANY / ALL / NONE
FieldMapForm(condition) ==
    /\ ~condition.isnone
    /\ condition.any.kind = "absent" /\ condition.all.kind = "absent"
    /\ condition.none.kind = "absent"

\* a field map of one key whose spec is a mapping with one operator
SingleLeaf(condition) ==
    /\ FieldMapForm(condition)
    /\ Len(condition.fields) = 1
    /\ condition.fields[1][2].isdict
    /\ Len(condition.fields[1][2].items) = 1

LeafKey(condition) == condition.fields[1][1]
LeafSpec(condition) == condition.fields[1][2]
LeafItem(condition) == condition.fields[1][2].items[1]

FoldedText(v) == StrLower(PyStr(v))

\* C1: for a (non-empty) list field and the operator != (alias ne) with the
\* default quantifier, the condition is true iff every element of the list
\* differs, ignoring case, from the operand.
C1_NeOverListRequiresEveryElement ==
    (/\ Evaluated
     /\ SingleLeaf(args.condition)
     /\ LeafItem(args.condition).op \in {"!=", "ne"}
     /\ LeafItem(args.condition).target.kind = "scalar"
     /\ LeafSpec(args.condition).quantifier = NoneV
     /\ ~LeafSpec(args.condition).case_sensitive
     /\ ContextGet(args.context, LeafKey(args.condition)).kind = "list"
     /\ ContextGet(args.context, LeafKey(args.condition)).l /= << >>)
    => LET l == ContextGet(args.context, LeafKey(args.condition)).l
           operand == LeafItem(args.condition).target.v
       IN result = B2R(\A i \in 1..Len(l) : FoldedText(l[i]) /= FoldedText(operand))

(***************************************************************************)
(* Properties of the category scorer (SpecCat)                             *)
(***************************************************************************)
Categorised == last = "categorise_media_scored"

CatCount == Len(categories.cats)
CatName(i) == categories.cats[i].name
CatWeight(i) == categories.cats[i].cfg.weight
\* the score of the entry at position i for the media of the call
CatScore(i) == ScoreOf(categories, i, args).score
SomePositive == \E i \in 1..CatCount : CatScore(i) > 0
DefaultAt(i) == Str(CatName(i)) = categories.default

\* the entry has a ceiling and the final rating of the call is recognised
\* and strictly stricter than it
CeilingExceeded(i) ==
    LET cfg == categories.cats[i].cfg
    IN /\ cfg.has_ratings
       /\ cfg.ceiling /= NoneV
       /\ normalise_rating(cfg.ceiling) /= NoneV
       /\ args.final_rating /= NoneV
       /\ InRatingIndex(args.final_rating.s)
       /\ \E a, b \in 1..Len(RATING_ORDER) :
              /\ RATING_ORDER[a] = args.final_rating.s
              /\ RATING_ORDER[b] = normalise_rating(cfg.ceiling).s
              /\ a > b

\* C2: a category whose ceiling is strictly exceeded by a recognised final
\* rating is never the category returned, whatever its matches and weight
\* and whatever the other categories and the default key are.
C2_CeilingExcludedCategoryNeverReturned ==
    Categorised =>
        \A i \in 1..CatCount : CeilingExceeded(i) => result.category /= Str(CatName(i))

\* position i beats position j: higher score, then higher weight, then
\* earlier in the configuration
Beats(i, j) ==
    \/ CatScore(i) > CatScore(j)
    \/ CatScore(i) = CatScore(j) /\ CatWeight(i) > CatWeight(j)
    \/ CatScore(i) = CatScore(j) /\ CatWeight(i) = CatWeight(j) /\ i <= j

\* C3: when some category scores above 0 the category returned has the
\* highest score, among those the highest weight, among those it is the
\* first in configuration order; it is returned with its score, and no
\* category scoring 0 or less is returned as the scored winner.
C3_WinnerIsMaxScoreThenWeightThenFirst ==
    Categorised =>
        /\ SomePositive =>
               \E i \in 1..CatCount :
                   /\ CatScore(i) > 0
                   /\ \A j \in 1..CatCount : Beats(i, j)
                   /\ result.category = Str(CatName(i))
                   /\ result.score = Num(CatScore(i))
        /\ result.score /= NoneV =>
               \E i \in 1..CatCount : result.category = Str(CatName(i)) /\ CatScore(i) > 0

\* two entries tie on the highest score and on weight and the earlier one
\* is returned
C3_Witness ==
    /\ Categorised
    /\ \E i, j \in 1..CatCount :
           /\ i < j
           /\ CatScore(i) > 0
           /\ CatScore(i) = CatScore(j) /\ CatWeight(i) = CatWeight(j)
           /\ \A k \in 1..CatCount : Beats(i, k)
           /\ result.category = Str(CatName(i))

\* C4 as stated: the category the default key names is not a scoring
\* candidate; it is returned exactly when no other category scores above 0,
\* and never with a numeric score.
C4_DefaultIsNotScored ==
    Categorised =>
        /\ result.category = categories.default
               <=> ~\E i \in 1..CatCount : ~DefaultAt(i) /\ CatScore(i) > 0
        /\ result.category = categories.default => result.score = NoneV

\* C4 as amended: every entry is scored, the one the default key names
\* included; the default category is returned with an absent score exactly
\* when no category scores above 0, and a category that scores above 0, the
\* default one included, is returned with its numeric score.
C4_DefaultIsScoredAndIsTheFallback ==
    Categorised =>
        /\ Len(result.scored_table) = CatCount
        /\ \A i \in 1..CatCount :
               /\ result.scored_table[i].name = CatName(i)
               /\ result.scored_table[i].score = CatScore(i)
        /\ (result.category = categories.default /\ result.score = NoneV) <=> ~SomePositive
        /\ SomePositive => result.score /= NoneV

\* the default category wins on its own score, against a positive rival
C4_Witness ==
    /\ Categorised
    /\ result.category = categories.default
    /\ result.score /= NoneV
    /\ \E i \in 1..CatCount : ~DefaultAt(i) /\ CatScore(i) > 0

\* C5: when no category scores above 0 and the ceiling of the default
\* category is strictly exceeded by the final rating, no category is
\* returned.
C5_ExcludedDefaultIsNotReturned ==
    (/\ Categorised
     /\ ~SomePositive
     /\ \E i \in 1..CatCount : DefaultAt(i) /\ CeilingExceeded(i))
    => result.category = NoneV /\ result.root_folder = NoneV

(***************************************************************************)
(* Properties of the rule selector (SpecRules)                             *)
(***************************************************************************)
Selected == last = "evaluate_quality_profile_rules"

RuleCount == Len(quality_profile_rules)
\* the priority a rule is ordered by: 9999 when it has none
PriorityOf(i) ==
    IF quality_profile_rules[i].priority = NoneV THEN 9999 ELSE quality_profile_rules[i].priority.n
\* rule i comes before rule j in ascending priority order, list order
\* deciding between equal priorities
Before(i, j) == PriorityOf(i) < PriorityOf(j) \/ (PriorityOf(i) = PriorityOf(j) /\ i < j)
\* the condition of rule i evaluates true under the logic of the rule
RuleMatches(i) ==
    LET rule == quality_profile_rules[i]
        given == IF rule.logic = NoneV THEN "OR" ELSE StrUpper(rule.logic.s)
    IN evaluate_condition(rule.condition, args, IF given = "AND" THEN "AND" ELSE "OR") = T

\* C6: the value returned is that of the first rule, in ascending priority
\* order (9999 when missing, list order between equals), whose condition
\* is true under its logic; absent when no rule matches or the list is
\* empty.
C6_FirstMatchInPriorityOrder ==
    Selected =>
        IF \E i \in 1..RuleCount : RuleMatches(i)
        THEN \E i \in 1..RuleCount :
                 /\ RuleMatches(i)
                 /\ \A j \in 1..RuleCount : (RuleMatches(j) /\ j /= i) => Before(i, j)
                 /\ result = quality_profile_rules[i].profile_id
        ELSE result = NoneV

\* a rule without priority matches first in the list, and a later rule with
\* an explicit lower priority is the one returned
C6_Witness ==
    /\ Selected
    /\ RuleCount >= 2
    /\ quality_profile_rules[1].priority = NoneV
    /\ RuleMatches(1) /\ RuleMatches(2)
    /\ PriorityOf(2) < PriorityOf(1)
    /\ result = quality_profile_rules[2].profile_id

(***************************************************************************)
(* Properties of the condition evaluator, continued                        *)
(***************************************************************************)
\* C7: evaluate_condition never raises: it returns a boolean for every
\* condition and context, and under OR logic a true leaf makes a field map
\* true whatever the other leaves are.
C7_EvaluateConditionNeverRaises ==
    Evaluated =>
        /\ result \in {T, F}
        /\ (/\ FieldMapForm(args.condition)
            /\ StrUpper(args.logic) /= "AND"
            /\ \E i \in 1..Len(args.condition.fields) :
                   EvalKey(args.context, args.condition.fields[i][1], args.condition.fields[i][2]) = T)
           => result = T

\* the operator names the engine knows, aliases included
SupportedOps ==
    RatingOps \cup ListCompareOps
    \cup {"in", "one_of", "not in", "not_in", "between"}

\* C8: a leaf whose operator is not in the supported vocabulary is false,
\* for a scalar field and for a list field under every quantifier.
C8_UnsupportedOperatorIsFalse ==
    (/\ Evaluated
     /\ SingleLeaf(args.condition)
     /\ LeafItem(args.condition).op \notin SupportedOps
     /\ ~IsNone(ContextGet(args.context, LeafKey(args.condition))))
    => result = F

\* the keys of a field sequence whose field is missing from the context
MissingAt(context, fields) ==
    {i \in 1..Len(fields) : IsNone(ContextGet(context, fields[i][1]))}

HasMissingItem(context, block) ==
    /\ block.kind = "list"
    /\ \E i \in 1..Len(block.items) :
           block.items[i].isdict /\ MissingAt(context, block.items[i].fields) /= {}

OnlyMissingItems(context, block) ==
    /\ block.kind = "list" /\ block.items /= << >>
    /\ \A i \in 1..Len(block.items) :
           block.items[i].isdict /\ MissingAt(context, block.items[i].fields) /= {}

\* C9: a leaf on a field that is missing from the context (or None) is false
\* without error: a field map holding one is false under AND and equals the
\* disjunction of its other leaves under OR; a combinator item holding one
\* is false, so it fails an ALL block and does not violate a NONE block.
C9_MissingFieldLeafIsFalse ==
    Evaluated =>
        LET c == args.condition
            x == args.context
        IN /\ (FieldMapForm(c) /\ MissingAt(x, c.fields) /= {}) =>
                  IF StrUpper(args.logic) = "AND" THEN result = F
                  ELSE result = B2R(\E i \in (1..Len(c.fields)) \ MissingAt(x, c.fields) :
                                       EvalKey(x, c.fields[i][1], c.fields[i][2]) = T)
           /\ HasMissingItem(x, c.all) => result = F
           /\ (OnlyMissingItems(x, c.none) /\ c.any.kind = "absent" /\ c.all.kind = "absent")
                  => result = T

\* C10: an absent or empty condition is true for every context and logic.
C10_EmptyConditionIsTrue ==
    (/\ Evaluated
     /\ \/ args.condition.isnone
        \/ /\ args.condition.fields = << >>
           /\ {args.condition.any.kind, args.condition.all.kind, args.condition.none.kind} = {"absent"})
    => result = T

C10_Witness ==
    /\ Evaluated
    /\ args.condition = FieldMap(<< >>)
    /\ args.logic = "OR"
    /\ result = T

\* some of the keys ANY / ALL / NONE is present, each holding a list
CombinatorForm(condition) ==
    /\ ~condition.isnone
    /\ {condition.any.kind, condition.all.kind, condition.none.kind} \subseteq {"absent", "list"}
    /\ "list" \in {condition.any.kind, condition.all.kind, condition.none.kind}

\* an item of a block is true iff it is a mapping whose field leaves are all true
ItemTrue(context, item) ==
    /\ item.isdict
    /\ \A j \in 1..Len(item.fields) : EvalKey(context, item.fields[j][1], item.fields[j][2]) = T

SomeItemTrue(context, block) ==
    \E i \in 1..Len(block.items) : ItemTrue(context, block.items[i])

EveryItemTrue(context, block) ==
    \A i \in 1..Len(block.items) : ItemTrue(context, block.items[i])

\* (ANY absent or some ANY item true) and (ALL absent or every ALL item
\* true) and (NONE absent or no NONE item true)
BlocksPass(context, condition) ==
    /\ condition.any.kind = "absent" \/ SomeItemTrue(context, condition.any)
    /\ condition.all.kind = "absent" \/ EveryItemTrue(context, condition.all)
    /\ condition.none.kind = "absent" \/ ~SomeItemTrue(context, condition.none)

\* C11: in combinator form the result is (ANY absent or some ANY item true)
\* and (ALL absent or every ALL item true) and (NONE absent or no NONE item
\* true), an item being true iff every field leaf in it is true.
C11_CombinatorResultIsConjunctionOfBlocks ==
    (Evaluated /\ CombinatorForm(args.condition))
    => result = B2R(BlocksPass(args.context, args.condition))

\* C12: a condition holding some of the keys ANY / ALL / NONE, whatever
\* the length of their lists, is evaluated in combinator form: its result
\* is the one of the same condition without its sibling field keys.
C12_CombinatorIgnoresSiblingFields ==
    (Evaluated /\ CombinatorForm(args.condition))
    => result = evaluate_condition([args.condition EXCEPT !.fields = << >>], args.context, args.logic)

\* C13: in field-map form the result is the conjunction of the leaf results
\* under the logic AND and their disjunction under every other logic.
C13_FieldMapCombinesLeavesByLogic ==
    (Evaluated /\ FieldMapForm(args.condition) /\ args.condition.fields /= << >>)
    => LET c == args.condition
           leaf(i) == EvalKey(args.context, c.fields[i][1], c.fields[i][2]) = T
       IN IF StrUpper(args.logic) = "AND"
          THEN result = B2R(\A i \in 1..Len(c.fields) : leaf(i))
          ELSE result = B2R(\E i \in 1..Len(c.fields) : leaf(i))

\* the operators _match_list_field applies element by element
PerElementOps == ListCompareOps \cup {"in", "one_of"}

\* element fv of a list field satisfies operand tv under operator op
Satisfies(op, fv, tv, case_sensitive) ==
    LET fold(x) == IF case_sensitive \/ x.t = "num" THEN x ELSE Str(FoldedText(x))
    IN _compare_scalar(IF op \in {"in", "one_of"} THEN "eq" ELSE alias(op),
                       fold(fv), fold(tv), case_sensitive) = T

\* the leaf under test is one operator on a list field
ListLeaf ==
    /\ Evaluated
    /\ SingleLeaf(args.condition)
    /\ ContextGet(args.context, LeafKey(args.condition)).kind = "list"

\* C14: for a list field and a per-element operator the leaf is true under
\* any (the default) iff some element satisfies some operand, under all iff
\* the list is non-empty and every element satisfies some operand, under
\* none iff no element satisfies any operand.
C14_QuantifierOverListField ==
    (ListLeaf /\ LeafItem(args.condition).op \in PerElementOps)
    => LET l == ContextGet(args.context, LeafKey(args.condition)).l
           sp == LeafSpec(args.condition)
           op == LeafItem(args.condition).op
           ts == _to_list(LeafItem(args.condition).target)
           hit(i) == \E j \in 1..Len(ts) : Satisfies(op, l[i], ts[j], sp.case_sensitive)
           q == IF sp.quantifier = NoneV THEN "any" ELSE StrLower(sp.quantifier.s)
       IN CASE q = "all" -> result = B2R(l /= << >> /\ \A i \in 1..Len(l) : hit(i))
            [] q = "none" -> result = B2R(~\E i \in 1..Len(l) : hit(i))
            [] OTHER -> result = B2R(\E i \in 1..Len(l) : hit(i))

\* the equality of `in` / `not in`: numeric when both sides parse as
\* numbers, else on the text, case folded unless the leaf is case sensitive
EqualOperand(fv, tv, case_sensitive) ==
    IF _is_number(fv) /\ _is_number(tv) THEN _coerce_num(fv) = _coerce_num(tv)
    ELSE IF case_sensitive THEN PyStr(fv) = PyStr(tv)
    ELSE FoldedText(fv) = FoldedText(tv)

\* C15: `not in` (alias not_in) over a list field is true iff no element
\* equals any target operand, whatever the quantifier of the leaf; it is
\* the negation of `in` with the quantifier any on the same field and
\* operands.
C15_NotInOverListIsNegationOfIn ==
    (ListLeaf /\ LeafItem(args.condition).op \in {"not in", "not_in"})
    => LET fv == ContextGet(args.context, LeafKey(args.condition))
           sp == LeafSpec(args.condition)
           target == LeafItem(args.condition).target
           ts == _to_list(target)
       IN /\ result = B2R(\A i \in 1..Len(fv.l), j \in 1..Len(ts) :
                              ~EqualOperand(fv.l[i], ts[j], sp.case_sensitive))
          /\ result = NotR(_eval_leaf_condition(fv, Leaf(<< Item("in", target) >>, Str("any"),
                                                         sp.case_sensitive), sp.case_sensitive))

\* `not in` under the quantifier all, on a list of which one element only
\* is among the operands
C15_Witness ==
    /\ ListLeaf
    /\ LeafItem(args.condition).op \in {"not in", "not_in"}
    /\ LeafSpec(args.condition).quantifier = Str("All")
    /\ LET l == ContextGet(args.context, LeafKey(args.condition)).l
           ts == _to_list(LeafItem(args.condition).target)
       IN /\ \E i \in 1..Len(l), j \in 1..Len(ts) : EqualOperand(l[i], ts[j], FALSE)
          /\ \E i \in 1..Len(l) : \A j \in 1..Len(ts) : ~EqualOperand(l[i], ts[j], FALSE)
    /\ result = F

OrderingOps == {"lt", "lte", "gt", "gte", "<", "<=", ">", ">="}

\* C16: lt / lte / gt / gte and their symbols on a scalar field compare
\* numerically when both sides parse as numbers, and otherwise compare the
\* two values as strings, lexicographically.
C16_OrderingIsNumericElseLexicographic ==
    (/\ Evaluated
     /\ SingleLeaf(args.condition)
     /\ LeafItem(args.condition).op \in OrderingOps
     /\ LeafItem(args.condition).target.kind = "scalar"
     /\ LeafItem(args.condition).target.v /= NoneV
     /\ ContextGet(args.context, LeafKey(args.condition)).kind = "scalar"
     /\ ~IsNone(ContextGet(args.context, LeafKey(args.condition))))
    => LET left == ContextGet(args.context, LeafKey(args.condition)).v
           right == LeafItem(args.condition).target.v
           op == alias(LeafItem(args.condition).op)
           text(x) == IF LeafSpec(args.condition).case_sensitive THEN PyStr(x) ELSE FoldedText(x)
           sym == CASE op = "lt" -> "<" [] op = "lte" -> "<=" [] op = "gt" -> ">" [] OTHER -> ">="
       IN IF _is_number(left) /\ _is_number(right)
          THEN result = B2R(IntCompare(op, _coerce_num(left), _coerce_num(right)))
          ELSE result = B2R(StrCompare(sym, text(left), text(right)))

(***************************************************************************)
(* Properties of the category scorer, continued                            *)
(***************************************************************************)
\* some configured entry matches some value of the context (token-set
\* similarity of the lower-cased strings at least 80)
SomeEntryMatches(entries, values) ==
    \E a \in 1..Len(entries), b \in 1..Len(values) :
        TokenSetRatioAtLeast(StrLower(values[b]), StrLower(entries[a]), 80)

\* the entry has a prefer and the recognised final rating is at or below it
AtOrBelowPrefer(i) ==
    LET cfg == categories.cats[i].cfg
    IN /\ cfg.has_ratings
       /\ cfg.prefer /= NoneV
       /\ normalise_rating(cfg.prefer) /= NoneV
       /\ args.final_rating /= NoneV
       /\ InRatingIndex(args.final_rating.s)
       /\ \E a, b \in 1..Len(RATING_ORDER) :
              /\ RATING_ORDER[a] = args.final_rating.s
              /\ RATING_ORDER[b] = normalise_rating(cfg.prefer).s
              /\ a <= b

ExpectedScore(i) ==
    LET cfg == categories.cats[i].cfg
    IN IF CeilingExceeded(i) THEN -999
       ELSE (IF SomeEntryMatches(cfg.genres, args.genres) THEN 3 ELSE 0)
            + (IF SomeEntryMatches(cfg.keywords, args.keywords) THEN 2 ELSE 0)
            + (IF \/ SomeEntryMatches(cfg.providers, args.providers)
                  \/ SomeEntryMatches(cfg.networks, args.networks) THEN 1 ELSE 0)
            + (IF AtOrBelowPrefer(i) THEN 1 ELSE 0)

NoFiltersNoRatings(i) ==
    LET cfg == categories.cats[i].cfg
    IN /\ cfg.genres = << >> /\ cfg.keywords = << >>
       /\ cfg.providers = << >> /\ cfg.networks = << >>
       /\ ~cfg.has_ratings

\* C17: the score of a category is the sentinel -999 when its ceiling is
\* exceeded by the recognised final rating, and otherwise 3 for a genre
\* match + 2 for a keyword match + 1 for a provider or network match + 1
\* for a final rating at or below prefer; a category with no filters and no
\* ratings scores 0 with empty reasons.
C17_ScoreIsSentinelOrWeightedSum ==
    Categorised =>
        \A i \in 1..CatCount :
            /\ result.scored_table[i].score = ExpectedScore(i)
            /\ NoFiltersNoRatings(i) =>
                   result.scored_table[i].score = 0 /\ result.scored_table[i].reasons = << >>

\* a category scores 3 + 2 + 1: genre, keyword and a final rating at or
\* below its prefer
C17_Witness ==
    /\ Categorised
    /\ \E i \in 1..CatCount :
           /\ result.scored_table[i].score = 6
           /\ AtOrBelowPrefer(i)

(***************************************************************************)
(* Properties of the rating helpers (SpecRatings)                          *)
(***************************************************************************)
Picked == last = "pick_strictest"
Normalised == last = "normalise_rating"

\* the position of a canonical rating in the canonical order
PositionOf(r) == CHOOSE i \in 1..Len(RATING_ORDER) : RATING_ORDER[i] = r
Canonical(r) == \E i \in 1..Len(RATING_ORDER) : RATING_ORDER[i] = r

\* C18: pick_strictest returns absent when no supplied rating is canonical
\* (the empty list included), and otherwise a supplied canonical rating
\* whose position in the canonical order is at least that of every other
\* supplied canonical rating.
C18_PickStrictestIsMaxOfCanonical ==
    Picked =>
        IF \A i \in 1..Len(args) : ~Canonical(args[i]) THEN result = NoneV
        ELSE /\ result.t = "str"
             /\ Canonical(result.s)
             /\ \E i \in 1..Len(args) : args[i] = result.s
             /\ \A i \in 1..Len(args) :
                    Canonical(args[i]) => PositionOf(args[i]) <= PositionOf(result.s)

\* the strictest rating is neither first nor alone, next to an unknown entry
C18_Witness ==
    /\ Picked
    /\ Len(args) = 3
    /\ Canonical(args[1]) /\ args[1] /= result.s
    /\ \E i \in 1..Len(args) : ~Canonical(args[i])
    /\ result = Str("R")

\* trimmed, upper-cased, spaces and hyphens removed
AliasForm(s) == StrRemove(StrRemove(StrUpper(StrStrip(s)), " "), "-")

\* C19: normalise_rating maps a string whose trimmed, upper-cased form
\* without spaces and hyphens is a known alias to the canonical rating of
\* that alias, and every other input (empty or absent included) to absent;
\* a result is a canonical rating, and a canonical rating is returned
\* unchanged.
C19_NormaliseMapsAliasesElseAbsent ==
    Normalised =>
        /\ IF args /= NoneV /\ InRatingNormalise(AliasForm(args.s))
           THEN result = RatingNormaliseGet(AliasForm(args.s))
           ELSE result = NoneV
        /\ result /= NoneV => Canonical(result.s) /\ normalise_rating(result) = result
        /\ (args /= NoneV /\ Canonical(args.s)) => result = args

\* an alias spelled with a hyphen the table does not have
C19_Witness ==
    /\ Normalised
    /\ args = Str("P-G13")
    /\ result = Str("PG-13")

(***************************************************************************)
(* Properties of the anime gate (SpecAnime)                                *)
(***************************************************************************)
Gated == last = "is_anime_hard"

\* (b) some genre is 'animation' and the original language is ja / zh / ko
AnimationInGateLanguage ==
    /\ \E i \in 1..Len(args.genres) : StrLower(args.genres[i]) = "animation"
    /\ args.original_language /= NoneV
    /\ StrLower(args.original_language.s) \in {"ja", "zh", "ko"}

\* (c) some production company is in the studio list or some network in
\* the network list
StudioOrNetworkListed ==
    \/ \E i \in 1..Len(args.production_companies) :
           StrLower(args.production_companies[i]) \in AnimeStudios
    \/ \E i \in 1..Len(args.networks) : StrLower(args.networks[i]) \in AnimeNets

\* C20 as stated: the gate is true iff (a) some keyword equals, ignoring
\* case, one of anime / donghua / manhwa / webtoon, or (b), or (c).
C20_GateIffKeywordEqualsOrAnimationOrStudio ==
    Gated =>
        (result = T <=>
            \/ \E i \in 1..Len(args.keywords) :
                   StrLower(args.keywords[i]) \in {"anime", "donghua", "manhwa", "webtoon"}
            \/ AnimationInGateLanguage
            \/ StudioOrNetworkListed)

\* C20 as amended: in (a) the keyword is compared after its surrounding
\* whitespace is trimmed.
C20_GateIffTrimmedKeywordOrAnimationOrStudio ==
    Gated =>
        /\ result \in {T, F}
        /\ result = T <=>
               \/ \E i \in 1..Len(args.keywords) :
                      StrLower(StrStrip(args.keywords[i])) \in {"anime", "donghua", "manhwa", "webtoon"}
               \/ AnimationInGateLanguage
               \/ StudioOrNetworkListed

\* a keyword padded with spaces is the only reason for the gate to open
C20_Witness ==
    /\ Gated
    /\ result = T
    /\ \E i \in 1..Len(args.keywords) : args.keywords[i] = " donghua "
    /\ ~AnimationInGateLanguage
    /\ ~StudioOrNetworkListed

(***************************************************************************)
(* Properties of the webhook server (SpecRequest, SpecWebhook)             *)
(***************************************************************************)
Threads == DOMAIN threads

\* the category map of the request's media type
ActiveCategories(t) == CategoriesFor(config, threads[t].request.media_type)

\* the thread has run the steps "anime gate" and "scoring"
PastScoring(t) ==
    \/ threads[t].pc \in {"decision", "get_request_status", "put_request", "approve_request",
                          "notify", "final notification"}
    \/ /\ threads[t].pc = "done"
       /\ threads[t].ended \notin {"not processed", "payload incomplete", "fetch failure"}

GatePositive(t) ==
    is_anime_hard(threads[t].details.genres, threads[t].details.keywords,
                  threads[t].details.original_language, threads[t].details.production_companies,
                  threads[t].details.networks) = T

Marked(t) == {i \in 1..Len(ActiveCategories(t).cats) : ActiveCategories(t).cats[i].cfg.is_anime}

\* a marked category no other marked category outweighs
TopMarked(t, i) ==
    /\ i \in Marked(t)
    /\ \A j \in Marked(t) : ActiveCategories(t).cats[j].cfg.weight <= ActiveCategories(t).cats[i].cfg.weight

RoutedByGate(t) ==
    /\ ~threads[t].scored
    /\ \E i \in Marked(t) :
          /\ TopMarked(t, i)
          /\ threads[t].best_match = Str(ActiveCategories(t).cats[i].name)

\* the scorer was called and its answer is the decision
RoutedByScorer(t, alone) ==
    /\ threads[t].scored
    /\ threads[t].best_match = alone.category
    /\ threads[t].target_root_folder = alone.root_folder

\* the only exception to leave process_request is one of get_request_status
\* in the notification steps
NoFailureFromGate(t) ==
    threads[t].response = 500 => threads[t].ended = "get_request_status raised"

\* C21 as stated: with the gate positive and a marked category the request
\* goes to the marked category of the highest weight and the scorer is not
\* called; otherwise the scorer decides as if there were no gate; the gate
\* step fails no request.
C21_GateRoutesToTopMarkedElseScorer ==
    \A t \in Threads :
        /\ NoFailureFromGate(t)
        /\ PastScoring(t) =>
              IF GatePositive(t) /\ Marked(t) /= {}
              THEN RoutedByGate(t)
              ELSE RoutedByScorer(t, categorise_media_scored(ActiveCategories(t), threads[t].details))

\* the marked categories of the highest weight have a root folder
TopMarkedHasRoot(t) ==
    /\ Marked(t) /= {}
    /\ \A i \in Marked(t) : TopMarked(t, i) => ActiveCategories(t).cats[i].cfg.root_folder /= ""

\* C21 as amended: the gate routes only when the marked category of the
\* highest weight has a non-empty apply.root_folder; when it has none the
\* scorer decides, as it does when no category is marked or the gate is
\* negative.
C21_GateRoutesToTopMarkedWithRootElseScorer ==
    \A t \in Threads :
        /\ NoFailureFromGate(t)
        /\ PastScoring(t) =>
              IF GatePositive(t) /\ TopMarkedHasRoot(t)
              THEN RoutedByGate(t)
              ELSE RoutedByScorer(t, categorise_media_scored(ActiveCategories(t), threads[t].details))

\* the gate has chosen between two marked categories, and the scorer alone
\* would have answered otherwise
C21_Witness ==
    \E t \in Threads :
        /\ PastScoring(t)
        /\ GatePositive(t)
        /\ Cardinality(Marked(t)) = 2
        /\ RoutedByGate(t)
        /\ threads[t].best_match /=
               categorise_media_scored(ActiveCategories(t), threads[t].details).category

\* the thread has run the step "decision"
PastDecision(t) ==
    \/ threads[t].pc \in {"get_request_status", "put_request", "approve_request",
                          "notify", "final notification"}
    \/ /\ threads[t].pc = "done"
       /\ threads[t].ended \notin {"not processed", "payload incomplete", "fetch failure",
                                   "no category"}

\* the configuration of the category the request was given
ChosenCfg(t) == CategoryCfg(ActiveCategories(t), threads[t].best_match.s)
ChosenRules(t) == ChosenCfg(t).quality_profile_rules

\* the context the rules of the request are evaluated in
ContextOfThread(t) ==
    RequestContextOf(threads[t].details, threads[t].request.media_type, Str("alice"))

\* rule i of the chosen category is true of the request under its logic
ChosenRuleMatches(t, i) ==
    LET rule == ChosenRules(t)[i]
        given == IF rule.logic = NoneV THEN "OR" ELSE StrUpper(rule.logic.s)
    IN evaluate_condition(rule.condition, ContextOfThread(t),
                          IF given = "AND" THEN "AND" ELSE "OR") = T

NoRuleMatches(t) == \A i \in 1..Len(ChosenRules(t)) : ~ChosenRuleMatches(t, i)

\* the calls of the given names made for the webhook of thread t
CallsOf(t, names) == {i \in 1..Len(upstream[t]) : upstream[t][i].call \in names}

RoutingCalls == {"get_request_status", "put_request", "approve_request", "send_notifiarr_passthrough"}

\* C22: when no quality-profile rule of the chosen category matches and the
\* category has no integer default profile id, process_request ends at the
\* decision with "no valid profile id" and neither a PUT, nor an approve,
\* nor a notification is issued for the request.
C22_NoProfileNoRouting ==
    \A t \in Threads :
        (PastDecision(t) /\ NoRuleMatches(t) /\ ChosenCfg(t).default_profile_id.t /= "num") =>
            /\ threads[t].pc = "done"
            /\ threads[t].ended = "no valid profile id"
            /\ threads[t].response = 202
            /\ CallsOf(t, RoutingCalls) = {}

\* a category with a rule that does not match and no default profile id
\* was chosen, and the request has ended
C22_Witness ==
    \E t \in Threads :
        /\ PastDecision(t)
        /\ ChosenRules(t) /= << >>
        /\ NoRuleMatches(t)
        /\ ChosenCfg(t).default_profile_id = NoneV
        /\ threads[t].ended = "no valid profile id"
        /\ Len(upstream[t]) = 1

\* the profile id the rule selector returns for the request of thread t
SelectedProfileId(t) == evaluate_quality_profile_rules(ChosenRules(t), ContextOfThread(t))

\* C25: the default profile id is substituted only when rule selection
\* returned absent: when it returned an integer v, 0 included, v is the
\* profile id of the decision and the profileId of every PUT payload.
C25_SelectedProfileIdIsSent ==
    \A t \in Threads :
        (PastDecision(t) /\ SelectedProfileId(t).t = "num") =>
            /\ threads[t].profile_id = SelectedProfileId(t)
            /\ \A i \in CallsOf(t, {"put_request"}) :
                  upstream[t][i].payload.profileId = SelectedProfileId(t)

\* the final rating of the request of thread t is stricter than the
\* ceiling configured for the category it was given
OverCeiling(t) ==
    LET cfg == ChosenCfg(t)
        final_rating == threads[t].details.final_rating
    IN /\ cfg.has_ratings
       /\ cfg.ceiling /= NoneV
       /\ normalise_rating(cfg.ceiling) /= NoneV
       /\ final_rating /= NoneV
       /\ InRatingIndex(final_rating.s)
       /\ \E a, b \in 1..Len(RATING_ORDER) :
             /\ RATING_ORDER[a] = final_rating.s
             /\ RATING_ORDER[b] = normalise_rating(cfg.ceiling).s
             /\ a > b

\* C26: every PUT routes the request to a category whose ratings.ceiling,
\* if configured, is not strictly exceeded by the request's final rating,
\* whether the anime gate, the scorer or the default fallback chose it.
C26_NoPutOverCeiling ==
    \A t \in Threads : CallsOf(t, {"put_request"}) /= {} => ~OverCeiling(t)

\* C27: approve_request is called only after put_request has succeeded for
\* the request, only with DRY_RUN false, ALLOW_AUTO_APPROVE true and a
\* status other than 2 read before the update, and at most once; after a
\* failed put_request neither an approve nor a notification follows.
C27_ApproveOnlyAfterPutOnce ==
    \A t \in Threads :
        /\ Cardinality(CallsOf(t, {"approve_request"})) <= 1
        /\ \A i \in CallsOf(t, {"approve_request"}) :
              /\ \E j \in CallsOf(t, {"put_request"}) : j < i /\ upstream[t][j].ok
              /\ \E j \in CallsOf(t, {"get_request_status"}) :
                    j < i /\ upstream[t][j].ok /\ threads[t].current_status /= Num(2)
              /\ ~config.DRY_RUN
              /\ config.ALLOW_AUTO_APPROVE
        /\ \A j \in CallsOf(t, {"put_request"}) :
              ~upstream[t][j].ok =>
                  /\ j = Len(upstream[t])
                  /\ threads[t].pc = "done"
                  /\ threads[t].ended = "update failure"

\* a request approved after its PUT, and notified
C27_Witness ==
    \E t \in Threads :
        /\ threads[t].pc = "done"
        /\ threads[t].response = 202
        /\ \E i \in CallsOf(t, {"approve_request"}) :
              /\ upstream[t][i].ok
              /\ upstream[t][i - 1].call = "put_request"
              /\ i < Len(upstream[t])

\* process_request returned before the notification steps
EndedEarly(t) ==
    threads[t].ended \in {"payload incomplete", "fetch failure", "no category",
                          "no valid profile id", "unsupported media_type", "missing server id",
                          "update failure"}

\* C28: at most one Notifiarr notification is sent for a webhook, and none
\* when processing ended early.
C28_AtMostOneNotification ==
    \A t \in Threads :
        /\ Cardinality(CallsOf(t, {"send_notifiarr_passthrough"})) <= 1
        /\ EndedEarly(t) => CallsOf(t, {"send_notifiarr_passthrough"}) = {}

\* the decision of a request that got one: a category of the map, its root
\* folder, an integer profile id and the payload made of them
DecisionComputed(t) ==
    /\ HasCategory(ActiveCategories(t), threads[t].best_match)
    /\ threads[t].target_root_folder = Str(ChosenCfg(t).root_folder)
    /\ threads[t].profile_id.t = "num"
    /\ threads[t].put_data.rootFolder = threads[t].target_root_folder
    /\ threads[t].put_data.profileId = threads[t].profile_id

\* C29: with DRY_RUN true no PUT and no approve call is made on any path,
\* and the category and profile decision is computed as without it.
C29_DryRunNoPutNoApprove ==
    config.DRY_RUN =>
        \A t \in Threads :
            /\ CallsOf(t, {"put_request", "approve_request"}) = {}
            /\ threads[t].pc \notin {"get_request_status", "put_request", "approve_request"}
            /\ (PastDecision(t) /\ ~EndedEarly(t)) => DecisionComputed(t)

\* a dry run that took its decision and went on to the notifications
C29_Witness ==
    \E t \in Threads :
        /\ config.DRY_RUN
        /\ threads[t].pc = "done"
        /\ threads[t].response = 202
        /\ ~EndedEarly(t)
        /\ DecisionComputed(t)
        /\ threads[t].put_data.profileId = Num(7)
        /\ CallsOf(t, {"send_notifiarr_passthrough"}) /= {}

\* the token a webhook supplies: the one of the X-Webhook-Token header or,
\* if the header is empty, the one of the headers map of the JSON body
Supplied(w) ==
    IF w.token_header /= "" THEN w.token_header
    ELSE IF w.json_ok /\ w.token_body.t = "str" THEN w.token_body.s
    ELSE ""

\* the same with the surrounding whitespace of either token trimmed
SuppliedTrimmed(w) ==
    IF StrStrip(w.token_header) /= "" THEN StrStrip(w.token_header)
    ELSE IF w.json_ok /\ w.token_body.t = "str" THEN StrStrip(w.token_body.s)
    ELSE ""

\* handle_request has called process_request for the webhook of thread t
Processed(t) == threads[t].pc /= "idle" /\ threads[t].ended /= "not processed"

Refused(t) ==
    /\ threads[t].pc = "done"
    /\ threads[t].response = 401
    /\ ~Processed(t)
    /\ upstream[t] = << >>

\* C30 as stated: with a token configured process_request is called only
\* for a webhook that supplies a token equal to it, and every other webhook
\* is answered 401 with no processing and no upstream call; with no token
\* configured no webhook is refused.
C30_ProcessedOnlyWithEqualToken ==
    \A t \in Threads :
        threads[t].pc /= "idle" =>
            IF Truthy(config.WEBHOOK_TOKEN)
            THEN IF Supplied(threads[t].request) = config.WEBHOOK_TOKEN.s
                 THEN threads[t].response /= 401
                 ELSE Refused(t)
            ELSE threads[t].response /= 401

\* C30 as amended: the token supplied is compared after its surrounding
\* whitespace is trimmed.
C30_ProcessedOnlyWithEqualTrimmedToken ==
    \A t \in Threads :
        threads[t].pc /= "idle" =>
            IF Truthy(config.WEBHOOK_TOKEN)
            THEN IF SuppliedTrimmed(threads[t].request) = config.WEBHOOK_TOKEN.s
                 THEN threads[t].response /= 401
                 ELSE Refused(t)
            ELSE threads[t].response /= 401

\* with a token configured: a webhook processed on the token of its body,
\* which equals the configured one only once trimmed
C30_Witness ==
    \E t \in Threads :
        /\ Truthy(config.WEBHOOK_TOKEN)
        /\ threads[t].request.token_header = ""
        /\ threads[t].request.token_body.s /= config.WEBHOOK_TOKEN.s
        /\ Processed(t)
        /\ threads[t].pc = "done"
        /\ threads[t].response = 202
        /\ upstream[t] /= << >>

(***************************************************************************)
(* Properties of the validation (SpecValidate)                             *)
(***************************************************************************)
\* a rating value the normaliser does not recognise
Unrecognised(value) == value /= NoneV /\ normalise_rating(Str(PyStr(value))) = NoneV

\* an entry that is no mapping lacks every key
EntryViolates(data, media_type) ==
    \/ ~data.is_mapping
    \/ data.weight.t /= "num"
    \/ data.root_folder = NoneV
    \/ (IF media_type = "tv" THEN data.sonarr_id ELSE data.radarr_id).t /= "num"
    \/ data.default_profile_id.t /= "num"
    \/ data.ratings = "mapping" /\ (Unrecognised(data.ceiling) \/ Unrecognised(data.prefer))

DefaultViolates(raw) ==
    \/ raw.default = NoneV
    \/ ~\E i \in 1..Len(raw.cats) : Str(raw.cats[i].name) = raw.default

ListedViolation(raw, media_type) ==
    \/ \E i \in 1..Len(raw.cats) : EntryViolates(raw.cats[i], media_type)
    \/ DefaultViolates(raw)

\* C23: validate_categories returns false exactly for the maps in which
\* some category lacks an integer weight, apply.root_folder, the integer
\* server id of its domain or an integer apply.default_profile_id, or has
\* an unrecognised ratings.ceiling or ratings.prefer, or in which the
\* default key is missing or names no existing category; and
\* validate_configuration exits with status 1 exactly when it returns false
\* for the tv or the movie map.
C23_RejectedIffListedViolation ==
    /\ last = "validate_categories" =>
          (result = FALSE <=> ListedViolation(args.categories, args.media_type))
    /\ last = "validate_configuration" =>
          (result = Num(1) <=> \/ ListedViolation(args.TV_CATEGORIES, "tv")
                               \/ ListedViolation(args.MOVIE_CATEGORIES, "movie"))

(***************************************************************************)
(* Properties of concurrent requests (SpecConcurrent)                      *)
(***************************************************************************)
\* what the request of thread t gets when it is the only one served: the
\* steps of process_request taken on the configuration as loaded
AloneDecision(t) ==
    LET media_type == threads[t].request.media_type
        alone == CategoriesFor(ConcurrentConfig, media_type)
        gate == AnimeGate(alone, threads[t].details)
        by_gate == ~NoRoute(gate.target_root_folder, gate.best_match)
        scored == categorise_media_scored(alone, threads[t].details)
        category == IF by_gate THEN gate.best_match ELSE scored.category
        rules == CategoryCfg(alone, category.s).quality_profile_rules
    IN [category |-> category,
        scored |-> ~by_gate,
        score |-> IF by_gate THEN NoneV ELSE scored.score,
        rules |-> rules,
        selected |-> evaluate_quality_profile_rules(rules, ContextOfThread(t)),
        profile_id |-> Decision(alone, media_type, category,
                                IF by_gate THEN gate.target_root_folder ELSE scored.root_folder,
                                ContextOfThread(t)).profile_id]

\* thread t has the decision `alone`, and its rule list is as loaded
DecidedAs(t, alone) ==
    /\ PastScoring(t) =>
          /\ threads[t].best_match = alone.category
          /\ threads[t].scored = alone.scored
          /\ threads[t].best_score = alone.score
    /\ PastDecision(t) =>
          /\ threads[t].profile_id = alone.profile_id
          /\ ChosenRules(t) = alone.rules
          /\ evaluate_quality_profile_rules(ChosenRules(t), ContextOfThread(t)) = alone.selected

OutOfOrder(rules) == \E i, j \in 1..Len(rules) : i < j /\ PriorityKey(rules[j]) < PriorityKey(rules[i])

====
